---- MODULE Spec2Model ----
(***************************************************************************)
(* Link-resolution and task-orchestration engine of starmovie12/Newyyioo.  *)
(*                                                                         *)
(* The engine is modelled as state machines over one set of                *)
(* variables; each specification moves its own group of variables and      *)
(* leaves the others alone:                                                *)
(*   SpecCache  lib/cache.ts: the result cache (link_cache collection)     *)
(*   SpecLink   solve_task processLink: one Link Processor call            *)
(*   SpecTask   one scraping_tasks document and every writer of links[]    *)
(*   SpecQueue  cron/process-queue GET: queue items and scheduled runs     *)
(*   SpecRecovery  the stuck recovery and reset-stuck passes               *)
(*   SpecView   the dashboard: /api/tasks polls, live stream and shield    *)
(*   SpecIntake POST /api/tasks and the dashboard's startProcess           *)
(*   SpecFetch  lib/solvers.ts: page fetches and the 522 retry wrapper     *)
(*   SpecChain  the resolver chain of one link, in both Link Processors    *)
(*   SpecPick   cron/process-queue GET: which queue item a run takes       *)
(*   SpecStream POST /api/stream_solve: the live channel; DELETE /api/tasks *)
(*   SpecResume cron/process-queue GET after a run that deferred links     *)
(*   SpecBudget solve_task POST: the run's time budget and the host's 60 s  *)
(*   SpecRequeue  cron/process-queue GET invoked again and again           *)
(*   SpecAttempts the extraction attempts made on one queue item           *)
(*   SpecSave   a run's saves by the id and url it was handed, and merges  *)
(*   SpecHits   lib/cache.ts: concurrent lookups of one url                *)
(*   SpecBoth   both Link Processors on the same link and answers          *)
(***************************************************************************)
EXTENDS Integers, Sequences, FiniteSets, TLC

(***************************************************************************)
(* Bounds of the model.                                                    *)
(***************************************************************************)
MaxClock == 3          \* the cache clock runs 0..MaxClock
MaxHits == 2           \* lookups stop counting hits at this hitCount
MaxAbandoned == 1      \* abandoned chains of one run still executing
MaxPolls == 2          \* /api/tasks responses in flight to the dashboard

(***************************************************************************)
(* Program constants.  The cache clock ticks in units of 12 hours.         *)
(***************************************************************************)
CacheExpiryTicks == 2  \* CACHE_EXPIRY_MS = 24 h
MAX_CRON_RETRIES == 3
HTTP_522_MAX_RETRIES == 2
BackoffStepSeconds == 2 \* const wait = 2000 * (attempt + 1)

VARIABLES
  now,      \* Date.now() as seen by lib/cache.ts
  cache,    \* link_cache: document key -> entry
  lk,       \* the getCachedLink call in progress
  task,     \* one scraping_tasks document: exists, status, links[]
  pl,       \* the processLink call in progress
  hist,     \* what the processLink call has done so far
  faults,   \* whether Firestore reads and writes may throw
  view,     \* the dashboard's last fetched copy of the task's links
  runs,     \* the solve_task run and the stream_solve run on the task
  proc,     \* per run and link id: that run's processLink call
  age,      \* whether processingStartedAt is older than the stuck threshold
  rec,      \* the stuck recovery or reset-stuck pass over the task
  items,    \* movies_queue and webseries_queue: item id -> document
  cron,     \* the invocations of GET /api/cron/process-queue
  pilot,    \* the dashboard's auto-pilot loop
  heartbeat, \* system/engine_status.status
  ui,       \* the dashboard: tasks state, shield, stream, polls in flight
  post,     \* the submissions of one url: POST /api/tasks calls in progress
  net,      \* one page fetch of lib/solvers.ts and the server's answers to it
  chan,     \* the NDJSON lines stream_solve has put on the live channel
  strm,     \* the stream_solve request: per link its processLink call
  clk,      \* one solve_task run against the host's clock
  lks,      \* concurrent getCachedLink calls on one url, and the hits returned
  sent      \* the links a run was handed: id and url as its caller held them

cacheVars == <<now, cache, lk>>
linkVars == <<task, pl, hist, faults>>
runVars == <<view, runs, proc, age, rec>>
queueVars == <<items, cron, pilot, heartbeat>>
outsideCache == <<linkVars, runVars, queueVars, ui, post, net, chan, strm, clk, lks, sent>>
outsideLink == <<runVars, queueVars, ui, post, net, chan, strm, clk, lks, sent>>
vars ==
  <<now, cache, lk, task, pl, hist, faults, view, runs, proc, age, rec,
    items, cron, pilot, heartbeat, ui, post, net, chan, strm, clk, lks, sent>>

(***************************************************************************)
(* Values shared by the machines.                                          *)
(***************************************************************************)
Null == "null"          \* null / undefined

NoTask == [exists |-> FALSE, status |-> "", links |-> <<>>]
NoCall == [pc |-> "idle"]
NoHist == [lookups |-> 0, chains |-> 0, fails |-> 0, calls |-> 0]

Runs == {"batch", "stream"}
LinkIds == {0, 1}
NoRun == [pc |-> "idle", timerQ |-> <<>>, i |-> 1, deferLeft |-> {},
          abandoned |-> 0]
NoProc == [pc |-> "none", attempt |-> 1, ret |-> [status |-> "", finalLink |-> Null]]
NoPass == [pc |-> "idle", kind |-> "", links |-> <<>>]

ItemIds == {"m1", "w1"}
CronIds == {"c1", "c2"}
NoCron == [pc |-> "idle", item |-> "", retryCount |-> 0, links |-> <<>>]
NoPilot == [pc |-> "idle", queue |-> <<>>, links |-> <<>>, threw |-> FALSE]

\* No queue item, no scheduled invocation and no auto-pilot loop exist.
NoQueue ==
  /\ items = [i \in {} |-> ""]
  /\ cron = [c \in CronIds |-> NoCron]
  /\ pilot = NoPilot
  /\ heartbeat = "idle"

\* The dashboard before it has loaded anything.
NoShield == [status |-> "", finalLink |-> Null]
NoUi == [tasks |-> <<>>, status |-> "", stream |-> "idle", grace |-> FALSE,
         shield |-> [l \in LinkIds |-> NoShield],
         live |-> [l \in LinkIds |-> ""], todo |-> {}, polls |-> {}]

PostIds == {"p1", "p2"}
NoPost == [pc |-> "idle", dup |-> NoTask, answer |-> ""]
NoPosts == [req |-> [p \in PostIds |-> NoPost], twins |-> 0, streams |-> 0]

NoSend == [pc |-> "none", payload |-> [status |-> "", finalLink |-> "null"],
           solving |-> FALSE, logs |-> 0]
NoStream == [pc |-> "idle", call |-> [l \in LinkIds |-> NoSend]]

NoClock == [t |-> 0, pc |-> "idle", i |-> 0, attempt |-> 0, started |-> 0]
NoLookups == [call |-> <<>>, hits |-> 0]
NoLinksSent == <<>>

NoFetch == [fn |-> "", script |-> <<>>, pc |-> "idle", attempt |-> 0,
            requests |-> 0, waits |-> <<>>, out |-> ""]

\* No run on the task, no recovery pass, no dashboard copy, no submission,
\* no page fetch and no live channel exist.
NoTaskRuns ==
  /\ view = <<>>
  /\ runs = [r \in Runs |-> NoRun]
  /\ proc = [r \in Runs |-> [l \in LinkIds |-> NoProc]]
  /\ age = "fresh"
  /\ rec = NoPass
  /\ ui = NoUi
  /\ post = NoPosts
  /\ net = NoFetch
  /\ chan = <<>>
  /\ strm = NoStream
  /\ clk = NoClock /\ lks = NoLookups /\ sent = NoLinksSent

NoRuns == NoQueue /\ NoTaskRuns

(***************************************************************************)
(* lib/cache.ts                                                            *)
(***************************************************************************)
CacheUrls == {"hubcloud.foo/a", " HubCloud.foo/A", "gdflix.x/b"}
FinalLinks == {"f1", "f2"}

\* hashUrl: md5 of url.toLowerCase().trim(); the model keeps the normalised
\* url itself as the document key.
hashUrl(url) ==
  CASE url = " HubCloud.foo/A" -> "hubcloud.foo/a"
    [] OTHER -> url

CacheKeys == {hashUrl(u) : u \in CacheUrls}

NoDoc == [exists |-> FALSE, finalLink |-> "", expiresAt |-> 0,
          hitCount |-> 0, status |-> ""]

NoLookup == [pc |-> "idle", url |-> "", at |-> 0, data |-> NoDoc, ret |-> NoDoc]

\* A reversed expiry comparison.
IsExpiredReversed(data, t) == data.expiresAt > t

\* new Date(data.expiresAt).getTime() < Date.now()
IsExpired(data, t) == data.expiresAt < t

\* A validity test against the wrong status literal.
NotValidWrongLiteral(data) == data.status # "ok"

\* data.status !== 'valid'
NotValid(data) == data.status # "valid"

\* getCachedLink up to the branch it takes after reading the document.
GetCachedLinkRead(url) ==
  /\ lk.pc \in {"idle", "returned"}
  /\ LET data == cache[hashUrl(url)] IN
       lk' = IF ~data.exists
               THEN [pc |-> "returned", url |-> url, at |-> now, data |-> NoDoc, ret |-> NoDoc]
             ELSE IF IsExpired(data, now)
               THEN [pc |-> "expire", url |-> url, at |-> now, data |-> data, ret |-> NoDoc]
             ELSE IF NotValid(data)
               THEN [pc |-> "returned", url |-> url, at |-> now, data |-> data, ret |-> NoDoc]
             ELSE [pc |-> "hit", url |-> url, at |-> now, data |-> data, ret |-> NoDoc]
  /\ UNCHANGED <<now, cache>>

\* doc.ref.update({ status: 'expired' }); a failed update is swallowed.
GetCachedLinkExpire ==
  /\ lk.pc = "expire"
  /\ LET k == hashUrl(lk.url) IN
       cache' = IF cache[k].exists
                  THEN [cache EXCEPT ![k].status = "expired"]
                  ELSE cache
  /\ lk' = [lk EXCEPT !.pc = "returned", !.ret = NoDoc]
  /\ UNCHANGED now

\* doc.ref.update({ hitCount: (data.hitCount || 0) + 1 }); return data.
GetCachedLinkHit ==
  /\ lk.pc = "hit"
  /\ lk.data.hitCount < MaxHits
  /\ LET k == hashUrl(lk.url) IN
       cache' = IF cache[k].exists
                  THEN [cache EXCEPT ![k].hitCount = lk.data.hitCount + 1]
                  ELSE cache
  /\ lk' = [lk EXCEPT !.pc = "returned", !.ret = lk.data]
  /\ UNCHANGED now

\* setCachedLink: set() overwrites the whole document.
SetCachedLink(url, finalLink) ==
  /\ cache' = [cache EXCEPT ![hashUrl(url)] =
                 [exists |-> TRUE, finalLink |-> finalLink,
                  expiresAt |-> now + CacheExpiryTicks,
                  hitCount |-> 0, status |-> "valid"]]
  /\ UNCHANGED <<now, lk>>

\* markCacheBroken: update() of a missing document throws and is swallowed.
MarkCacheBroken(url) ==
  /\ cache[hashUrl(url)].exists
  /\ cache[hashUrl(url)].status # "broken"
  /\ cache' = [cache EXCEPT ![hashUrl(url)].status = "broken"]
  /\ UNCHANGED <<now, lk>>

\* cleanupExpiredCache: where('expiresAt', '<', now) ... batch.delete
CleanupExpiredCache ==
  /\ \E k \in DOMAIN cache : cache[k].exists /\ cache[k].expiresAt < now
  /\ cache' = [k \in DOMAIN cache |->
                 IF cache[k].exists /\ cache[k].expiresAt < now
                   THEN NoDoc ELSE cache[k]]
  /\ UNCHANGED <<now, lk>>

Tick ==
  /\ now < MaxClock
  /\ now' = now + 1
  /\ UNCHANGED <<cache, lk>>

InitCache ==
  /\ now = 0
  /\ cache = [k \in CacheKeys |-> NoDoc]
  /\ lk = NoLookup
  /\ task = NoTask
  /\ pl = NoCall
  /\ hist = NoHist
  /\ faults = FALSE
  /\ NoRuns

NextCache ==
  \/ (\E u \in CacheUrls : GetCachedLinkRead(u)) /\ UNCHANGED outsideCache
  \/ GetCachedLinkExpire /\ UNCHANGED outsideCache
  \/ GetCachedLinkHit /\ UNCHANGED outsideCache
  \/ (\E u \in CacheUrls, f \in FinalLinks : SetCachedLink(u, f))
       /\ UNCHANGED outsideCache
  \/ (\E u \in CacheUrls : MarkCacheBroken(u)) /\ UNCHANGED outsideCache
  \/ CleanupExpiredCache /\ UNCHANGED outsideCache
  \/ Tick /\ UNCHANGED outsideCache

SpecCache == InitCache /\ [][NextCache]_vars

(***************************************************************************)
(* lib/config.ts domain lists and the urls the model resolves.  A url is   *)
(* a string; Tokens gives the domain names it contains (String.includes).  *)
(***************************************************************************)
TIMER_DOMAINS ==
  {"gadgetsweb", "review-tech", "ngwin", "cryptoinsights", "techbigs",
   "apkdone", "linkvertise", "shrinkme", "shorte", "ouo.io", "ouo.press",
   "rocklinks", "adlinkfly"}

TARGET_DOMAINS ==
  {"hblinks", "hubdrive", "hubcdn", "hubcloud", "gdflix", "drivehub",
   "filepress", "hubstream", "hdstream", "kolop", "fastdl"}

LinkUrls ==
  {"hubcdn.fans/v", "gadgetsweb.xyz/g", "review-tech.io/r", "hblinks.dad/h",
   "hubdrive.space/d", "hubcloud.foo/a", "gdflix.x/b", "filepress.top/p",
   "example.org/o"}

Tokens(url) ==
  CASE url = "hubcdn.fans/v"    -> {"hubcdn.fans", "hubcdn"}
    [] url = "gadgetsweb.xyz/g" -> {"gadgetsweb"}
    [] url = "review-tech.io/r" -> {"review-tech"}
    [] url = "hblinks.dad/h"    -> {"hblinks"}
    [] url = "hubdrive.space/d" -> {"hubdrive"}
    [] url = "hubcloud.foo/a"   -> {"hubcloud"}
    [] url = "gdflix.x/b"       -> {"gdflix"}
    [] url = "filepress.top/p"  -> {"filepress"}
    [] OTHER                    -> {}

Includes(url, d) == d \in Tokens(url)
IsTimerUrl(url) == \E d \in TIMER_DOMAINS : Includes(url, d)
IsTargetUrl(url) == \E d \in TARGET_DOMAINS : Includes(url, d)

(***************************************************************************)
(* solve_task/route.ts: saveResultToFirestore.  One transaction: read the  *)
(* links array, rewrite every entry matching the id or the url, derive the *)
(* task status from the rewritten array.                                   *)
(***************************************************************************)
Link(id, url, status, finalLink) ==
  [id |-> id, link |-> url, status |-> status, finalLink |-> finalLink]

Result(status, finalLink) == [status |-> status, finalLink |-> finalLink]

\* result.finalLink ?? l.finalLink ?? null
Coalesce(a, b) == IF a # Null THEN a ELSE b

\* A save that rewrites the whole array with its result.
UpdatedEveryLink(existing, lid, linkUrl, result) ==
  [i \in DOMAIN existing |-> [existing[i] EXCEPT !.status = result.status]]

\* existing.map((l) => l.id === lid || l.link === linkUrl ? {...} : l)
UpdatedLinks(existing, lid, linkUrl, result) ==
  [i \in DOMAIN existing |->
     IF existing[i].id = lid \/ existing[i].link = linkUrl
       THEN [existing[i] EXCEPT
               !.finalLink = Coalesce(result.finalLink, existing[i].finalLink),
               !.status = result.status]
       ELSE existing[i]]

AllDone(ls) ==
  \A i \in DOMAIN ls : ls[i].status \in {"done", "success", "error", "failed"}
AnySuccess(ls) ==
  \E i \in DOMAIN ls : ls[i].status \in {"done", "success"}

\* allDone ? (anySuccess ? 'completed' : 'failed') : 'processing'
StatusFromLinks(ls) ==
  IF AllDone(ls) THEN (IF AnySuccess(ls) THEN "completed" ELSE "failed")
  ELSE "processing"

saveResultToFirestore(t, lid, linkUrl, result) ==
  IF ~t.exists THEN t
  ELSE LET updated == UpdatedLinks(t.links, lid, linkUrl, result) IN
         [t EXCEPT !.links = updated, !.status = StatusFromLinks(updated)]

\* Whether a Firestore write of this step goes through.
WriteOutcomes == IF faults THEN BOOLEAN ELSE {TRUE}

(***************************************************************************)
(* solve_task/route.ts: processLink.  solveWork is followed from one       *)
(* awaited solver call to the next: Advance runs the synchronous code from *)
(* a stage of the chain to the call it awaits or to the chain's result.    *)
(***************************************************************************)
Await(call, cur, loopCount) ==
  [kind |-> "call", call |-> call, cur |-> cur, loopCount |-> loopCount,
   result |-> Result("", Null)]
Settled(result) ==
  [kind |-> "result", call |-> "", cur |-> "", loopCount |-> 0,
   result |-> result]

\* The domains that end the bypass loop: TARGET_DOMAINS in solve_task, an
\* inline list of six in stream_solve.
LoopStopDomains(variant) ==
  IF variant = "batch" THEN TARGET_DOMAINS
  ELSE {"hblinks", "hubdrive", "hubcdn", "hubcloud", "gdflix", "drivehub"}

\* A bypass loop without its hop limit.
LoopUnbounded(variant, cur, loopCount) ==
  /\ ~(\E d \in LoopStopDomains(variant) : Includes(cur, d))
  /\ ~(~IsTimerUrl(cur) /\ loopCount = 0)

\* while (loopCount < 3 && !TARGET_DOMAINS.some(...)) {
\*   if (!TIMER_DOMAINS.some(...) && loopCount === 0) break;
LoopContinues(variant, cur, loopCount) ==
  /\ loopCount < 3
  /\ ~(\E d \in LoopStopDomains(variant) : Includes(cur, d))
  /\ ~(~IsTimerUrl(cur) /\ loopCount = 0)

\* The last lines of solveWork: stream_solve reports an unmatched url as
\* resolved, solve_task as an error.
NoSolverMatched(variant, cur) ==
  IF variant = "batch" THEN Result("error", Null) ELSE Result("done", cur)

RECURSIVE Advance(_, _, _, _)
Advance(variant, stage, cur, loopCount) ==
  CASE stage = "4a" ->
         IF Includes(cur, "hubcdn.fans") THEN Await("solveHubCDN", cur, loopCount)
         ELSE Advance(variant, "4b", cur, loopCount)
    [] stage = "4b" ->
         IF LoopContinues(variant, cur, loopCount)
           THEN IF Includes(cur, "gadgetsweb")
                  THEN Await("solveGadgetsWebNative", cur, loopCount)
                  ELSE Await("timerBypass", cur, loopCount)
           ELSE Advance(variant, "4c", cur, loopCount)
    [] stage = "4c" ->
         IF Includes(cur, "hblinks") THEN Await("solveHBLinks", cur, loopCount)
         ELSE Advance(variant, "4d", cur, loopCount)
    [] stage = "4d" ->
         IF Includes(cur, "hubdrive") THEN Await("solveHubDrive", cur, loopCount)
         ELSE Advance(variant, "4e", cur, loopCount)
    [] stage = "4e" ->
         IF Includes(cur, "hubcloud") \/ Includes(cur, "hubcdn")
           THEN Await("solveHubCloudNative", cur, loopCount)
           ELSE Advance(variant, "4f", cur, loopCount)
    [] OTHER ->
         IF Includes(cur, "gdflix") \/ Includes(cur, "drivehub")
           THEN Settled(Result("done", cur))
           ELSE Settled(NoSolverMatched(variant, cur))

\* What the solvers can answer.
HBLinksAnswers == {u \in LinkUrls : Includes(u, "hubcloud") \/ Includes(u, "hubdrive")}
HopAnswers == LinkUrls

\* if (result.status === 'error' && attempt === 1)
RetryNever(result, attempt) == FALSE
ShouldRetry(result, attempt) == result.status = "error" /\ attempt = 1

\* if (cached && cached.finalLink)
CacheIgnored(cached) == FALSE
CacheUsable(cached) == cached.exists /\ cached.finalLink # ""

\* processLink(linkData, lid, taskId, extractedBy, attempt) is entered.
Enter(lid, url, attempt) ==
  [pc |-> "start", lid |-> lid, url |-> url, attempt |-> attempt,
   cached |-> NoDoc, viaCache |-> FALSE, chain |-> Settled(Result("", Null)),
   ret |-> Result("", Null)]

\* The race is settled with `result`: retry, or go on to save it.
AfterRace(result) ==
  IF ShouldRetry(result, pl.attempt)
    THEN pl' = Enter(pl.lid, pl.url, 2)
    ELSE pl' = [pl EXCEPT !.pc = "save",
                          !.chain = Settled(result), !.ret = result]

\* solveWork went from one await to the next, or returned.
Proceed(next, failed) ==
  /\ hist' = [hist EXCEPT !.calls = @ + 1,
                          !.fails = IF failed THEN @ + 1 ELSE @]
  /\ IF next.kind = "call"
       THEN pl' = [pl EXCEPT !.chain = next]
       ELSE AfterRace(next.result)
  /\ UNCHANGED <<task, faults, cacheVars>>

\* const cached = await getCachedLink(originalUrl)
PLLookup ==
  /\ pl.pc = "start"
  /\ GetCachedLinkRead(pl.url)
  /\ pl' = [pl EXCEPT !.pc = "lookup"]
  /\ hist' = [hist EXCEPT !.lookups = @ + 1]
  /\ UNCHANGED <<task, faults>>

\* What the model records as read when the document read threw.
ReadFailed == [NoDoc EXCEPT !.status = "read-failed"]

\* A read failure that rejects the caller.
CacheReadRejects(p) == [p EXCEPT !.pc = "threw"]

\* getCachedLink's outer catch { return null }: the caller gets a miss.
CacheReadThrew(p) == [p EXCEPT !.pc = "lookup"]

\* const cached = await getCachedLink(originalUrl), the document read
\* throwing inside getCachedLink.
PLLookupFails ==
  /\ pl.pc = "start"
  /\ faults
  /\ lk.pc \in {"idle", "returned"}
  /\ lk' = [pc |-> "returned", url |-> pl.url, at |-> now,
            data |-> ReadFailed, ret |-> NoDoc]
  /\ pl' = CacheReadThrew(pl)
  /\ hist' = [hist EXCEPT !.lookups = @ + 1]
  /\ UNCHANGED <<now, cache, task, faults>>

\* Cache hit: save 'done' with the cached finalLink and return.  A throw of
\* the save lands in the catch around the cache check: on to the chain.
PLCacheHit ==
  /\ pl.pc = "lookup" /\ lk.pc = "returned"
  /\ CacheUsable(lk.ret)
  /\ \E ok \in WriteOutcomes :
       IF ok
         THEN /\ task' = saveResultToFirestore(task, pl.lid, pl.url,
                                               Result("done", lk.ret.finalLink))
              /\ pl' = [pl EXCEPT !.pc = "returned", !.cached = lk.ret,
                                  !.viaCache = TRUE,
                                  !.ret = Result("done", lk.ret.finalLink)]
         ELSE /\ task' = task
              /\ pl' = [pl EXCEPT !.pc = "solve", !.cached = lk.ret]
  /\ UNCHANGED <<hist, faults, cacheVars>>

\* Cache miss: on to solveWork.
PLCacheMiss ==
  /\ pl.pc = "lookup" /\ lk.pc = "returned"
  /\ ~CacheUsable(lk.ret)
  /\ pl' = [pl EXCEPT !.pc = "solve", !.cached = lk.ret]
  /\ UNCHANGED <<task, hist, faults, cacheVars>>

\* Promise.race([solveWork(), timeout]): solveWork runs to its first await.
PLSolveWork ==
  /\ pl.pc = "solve"
  /\ LET first == Advance("batch", "4a", pl.url, 0) IN
       /\ hist' = [hist EXCEPT !.chains = @ + 1,
                     !.fails = IF first.kind = "result"
                                  /\ first.result.status = "error"
                                 THEN @ + 1 ELSE @]
       /\ IF first.kind = "call"
            THEN pl' = [pl EXCEPT !.pc = "call", !.chain = first]
            ELSE AfterRace(first.result)
  /\ UNCHANGED <<task, faults, cacheVars>>

\* 4a: solveHubCDN; success ends the chain, failure ends it with an error.
SolveHubCDN ==
  /\ pl.pc = "call" /\ pl.chain.call = "solveHubCDN"
  /\ \/ \E f \in FinalLinks : Proceed(Settled(Result("done", f)), FALSE)
     \/ Proceed(Settled(Result("error", Null)), TRUE)

\* 4b: solveGadgetsWebNative; success hops on, failure breaks the loop.
SolveGadgetsWebNative ==
  /\ pl.pc = "call" /\ pl.chain.call = "solveGadgetsWebNative"
  /\ LET c == pl.chain IN
       \/ \E u \in HopAnswers :
            LET n == Advance("batch", "4b", u, c.loopCount + 1) IN
              Proceed(n, n.kind = "result" /\ n.result.status = "error")
       \/ LET n == Advance("batch", "4c", c.cur, c.loopCount) IN
            Proceed(n, n.kind = "result" /\ n.result.status = "error")

\* 4b: the VPS timer bypass through fetchWithTimeout, which throws on an
\* HTTP error or its own timeout: the throw rejects solveWork.
TimerBypass ==
  /\ pl.pc = "call" /\ pl.chain.call = "timerBypass"
  /\ LET c == pl.chain IN
       \/ \E u \in HopAnswers :
            LET n == Advance("batch", "4b", u, c.loopCount + 1) IN
              Proceed(n, n.kind = "result" /\ n.result.status = "error")
       \/ LET n == Advance("batch", "4c", c.cur, c.loopCount) IN
            Proceed(n, n.kind = "result" /\ n.result.status = "error")
       \/ Proceed(Settled(Result("error", Null)), TRUE)

\* 4c: solveHBLinks.
SolveHBLinks ==
  /\ pl.pc = "call" /\ pl.chain.call = "solveHBLinks"
  /\ LET c == pl.chain IN
       \/ \E u \in HBLinksAnswers :
            LET n == Advance("batch", "4d", u, c.loopCount) IN
              Proceed(n, n.kind = "result" /\ n.result.status = "error")
       \/ Proceed(Settled(Result("error", Null)), TRUE)

\* 4d: solveHubDrive.
SolveHubDrive ==
  /\ pl.pc = "call" /\ pl.chain.call = "solveHubDrive"
  /\ LET c == pl.chain IN
       \/ \E u \in HopAnswers :
            LET n == Advance("batch", "4e", u, c.loopCount) IN
              Proceed(n, n.kind = "result" /\ n.result.status = "error")
       \/ Proceed(Settled(Result("error", Null)), TRUE)

\* 4e: solveHubCloudNative.
SolveHubCloudNative ==
  /\ pl.pc = "call" /\ pl.chain.call = "solveHubCloudNative"
  /\ \/ \E f \in FinalLinks : Proceed(Settled(Result("done", f)), FALSE)
     \/ Proceed(Settled(Result("error", Null)), TRUE)

\* The LINK_TIMEOUT_MS timer wins the race while solveWork awaits a call.
PLTimeout ==
  /\ pl.pc = "call"
  /\ hist' = [hist EXCEPT !.fails = @ + 1]
  /\ AfterRace(Result("error", Null))
  /\ UNCHANGED <<task, faults, cacheVars>>

\* await saveResultToFirestore(...); a throw rejects processLink.
PLSave ==
  /\ pl.pc = "save"
  /\ \E ok \in WriteOutcomes :
       IF ok
         THEN /\ task' = saveResultToFirestore(task, pl.lid, pl.url, pl.ret)
              /\ pl' = [pl EXCEPT !.pc =
                          IF pl.ret.status = "done" /\ pl.ret.finalLink # Null
                            THEN "cachewrite" ELSE "returned"]
         ELSE /\ task' = task
              /\ pl' = [pl EXCEPT !.pc = "threw"]
  /\ UNCHANGED <<hist, faults, cacheVars>>

\* await setCachedLink(originalUrl, result.finalLink, ...); a failed write
\* is swallowed inside setCachedLink.
PLCacheWrite ==
  /\ pl.pc = "cachewrite"
  /\ \E ok \in WriteOutcomes :
       IF ok THEN SetCachedLink(pl.url, pl.ret.finalLink)
             ELSE UNCHANGED cacheVars
  /\ pl' = [pl EXCEPT !.pc = "returned"]
  /\ UNCHANGED <<task, hist, faults>>

\* Another Link Processor call (another link with this url, in this or any
\* other task) stores its result in the shared cache.
OtherCallStores ==
  /\ pl.pc \notin {"idle", "returned", "threw"}
  /\ \E f \in FinalLinks : SetCachedLink(pl.url, f)
  /\ UNCHANGED linkVars

LinkKeys == {hashUrl(u) : u \in LinkUrls}

\* What link_cache may hold for the link's url when the call starts: no
\* entry, a live one, one past its expiresAt, a broken one.
CacheEntries ==
  {NoDoc}
  \cup {[exists |-> TRUE, finalLink |-> "f1", expiresAt |-> e,
         hitCount |-> 0, status |-> st] :
          e \in {0, 2}, st \in {"valid", "broken"}}

\* One call processLink(l, l.id, taskId, extractedBy) on a link of a task
\* that holds a second link; the link is pending, or was resolved by an
\* earlier call.
InitLink ==
  /\ now = 1
  /\ lk = NoLookup
  /\ faults \in BOOLEAN
  /\ hist = NoHist
  /\ \E u \in LinkUrls, e \in CacheEntries, first \in BOOLEAN :
       /\ cache = [k \in LinkKeys |-> IF k = hashUrl(u) THEN e ELSE NoDoc]
       /\ task = [exists |-> TRUE,
                  status |-> IF first THEN "processing" ELSE "completed",
                  links |-> <<IF first THEN Link(0, u, "pending", Null)
                                       ELSE Link(0, u, "done", "f0"),
                              Link(1, "drivehub.x/other", "done", "f0")>>]
       /\ pl = Enter(0, u, 1)
  /\ NoRuns

NextLink ==
  \/ PLLookup /\ UNCHANGED outsideLink
  \/ PLLookupFails /\ UNCHANGED outsideLink
  \/ GetCachedLinkExpire /\ UNCHANGED <<linkVars, outsideLink>>
  \/ GetCachedLinkHit /\ UNCHANGED <<linkVars, outsideLink>>
  \/ PLCacheHit /\ UNCHANGED outsideLink
  \/ PLCacheMiss /\ UNCHANGED outsideLink
  \/ PLSolveWork /\ UNCHANGED outsideLink
  \/ SolveHubCDN /\ UNCHANGED outsideLink
  \/ SolveGadgetsWebNative /\ UNCHANGED outsideLink
  \/ TimerBypass /\ UNCHANGED outsideLink
  \/ SolveHBLinks /\ UNCHANGED outsideLink
  \/ SolveHubDrive /\ UNCHANGED outsideLink
  \/ SolveHubCloudNative /\ UNCHANGED outsideLink
  \/ PLTimeout /\ UNCHANGED outsideLink
  \/ PLSave /\ UNCHANGED outsideLink
  \/ PLCacheWrite /\ UNCHANGED outsideLink
  \/ OtherCallStores /\ UNCHANGED outsideLink

SpecLink == InitLink /\ [][NextLink]_vars

(***************************************************************************)
(* One Task worked on by a solve_task run, a stream_solve run, the stuck   *)
(* recovery of the scheduled run and the admin reset-stuck pass.  A run's  *)
(* processLink calls are followed from await to await; the chain inside a  *)
(* call is one step from its start to its result.                          *)
(***************************************************************************)
\* The link lists a new task can hold: two timer links, or a timer link and
\* a direct link.
TaskShapes ==
  {<<Link(0, "gadgetsweb.xyz/g", "pending", Null),
     Link(1, "review-tech.io/r", "pending", Null)>>,
   <<Link(0, "review-tech.io/r", "pending", Null),
     Link(1, "hubcloud.foo/a", "pending", Null)>>}

TaskKeys ==
  {hashUrl(ls[i].link) : ls \in TaskShapes, i \in {1, 2}}
UrlOf(lid) == task.links[lid + 1].link
IsTimerLink(lid) == IsTimerUrl(UrlOf(lid))

\* !l.status || l.status === 'pending' || l.status === 'processing'
IsPendingLink(l) == l.status \in {"", "pending", "processing"}

\* s !== 'done' && s !== 'success'  (the dashboard's shield filter)
NotSolved(l) == l.status \notin {"done", "success"}

IdsOf(ls) == {ls[i].id : i \in DOMAIN ls}
TimerIds(ls) ==
  LET t == SelectSeq(ls, LAMBDA l : IsTimerUrl(l.link)) IN
    [i \in DOMAIN t |-> t[i].id]

\* stream_solve: saveToFirestore.
saveToFirestore(t, lid, linkUrl, result) ==
  IF ~t.exists THEN t
  ELSE LET updated == UpdatedLinks(t.links, lid, linkUrl, result) IN
         [t EXCEPT !.links = updated, !.status = StatusFromLinks(updated)]

\* stream_solve: the transaction of the cache-hit branch; it rewrites the
\* entry found by id and updates the links field only.
streamCacheHitSave(t, lid, finalLink) ==
  IF ~t.exists \/ lid \notin IdsOf(t.links) THEN t
  ELSE LET idx == CHOOSE i \in DOMAIN t.links :
                    /\ t.links[i].id = lid
                    /\ \A j \in DOMAIN t.links : t.links[j].id = lid => i <= j
       IN [t EXCEPT !.links[idx] = [@ EXCEPT !.status = "done",
                                             !.finalLink = finalLink]]

\* recoverStuckTasks part B and reset-stuck part 1: what is written for a
\* task read with these links.
AllTerminal(ls) == Len(ls) > 0 /\ AllDone(ls)
AllSuccess(ls) ==
  AllTerminal(ls) /\ \A i \in DOMAIN ls : ls[i].status \in {"done", "success"}
\* A reset that spares no link.
ResetEveryLink(ls) == [i \in DOMAIN ls |-> [ls[i] EXCEPT !.status = "error"]]
ResetLinks(ls) ==
  [i \in DOMAIN ls |->
     IF ls[i].status \in {"", "pending", "processing"}
       THEN [ls[i] EXCEPT !.status = "error"] ELSE ls[i]]
RecoveredTask(t, ls) ==
  IF AllTerminal(ls)
    THEN [t EXCEPT !.status = IF AllSuccess(ls) THEN "completed" ELSE "failed"]
    ELSE [t EXCEPT !.links = ResetLinks(ls), !.status = "failed"]

Alive(r) == runs[r].pc \in {"marking", "running", "defer"}
TimerLoopRuns(r) == runs[r].pc = "running" /\ runs[r].i <= Len(runs[r].timerQ)

\* The sequential loop is between two processLink calls.
BetweenTimerLinks(r) ==
  /\ TimerLoopRuns(r)
  /\ \A k \in 1..(runs[r].i - 1) :
       proc[r][runs[r].timerQ[k]].pc = "finished"

\* GET /api/tasks: the dashboard fetches the task.
ClientFetch ==
  /\ task.exists /\ view = <<>>
  /\ view' = task.links
  /\ UNCHANGED <<task, faults, cache, runs, proc, age, rec>>

\* solve_task POST up to the pendingLinks filter; links come from the
\* request body when it carries any, from the document otherwise.
BatchRead ==
  /\ runs["batch"].pc = "idle" /\ task.exists
  /\ \E allLinks \in {task.links} \cup (IF view # <<>> THEN {view} ELSE {}) :
       LET pendingLinks == SelectSeq(allLinks, IsPendingLink) IN
         IF pendingLinks = <<>>
           THEN /\ runs' = [runs EXCEPT !["batch"].pc = "done"]
                /\ proc' = proc
           ELSE /\ runs' = [runs EXCEPT !["batch"].pc = "marking",
                              !["batch"].timerQ = TimerIds(pendingLinks)]
                /\ proc' = [proc EXCEPT !["batch"] =
                     [l \in LinkIds |->
                        IF l \in IdsOf(pendingLinks)
                          THEN [NoProc EXCEPT !.pc = "queued"] ELSE NoProc]]
  /\ UNCHANGED <<task, faults, cache, view, age, rec>>

\* Step 1: mark the task 'processing'; then the direct links all start.
BatchMark ==
  /\ runs["batch"].pc = "marking"
  /\ task' = [task EXCEPT !.status = "processing"]
  /\ age' = "fresh"
  /\ runs' = [runs EXCEPT !["batch"].pc = "running"]
  /\ proc' = [proc EXCEPT !["batch"] =
       [l \in LinkIds |->
          IF proc["batch"][l].pc = "queued" /\ ~IsTimerLink(l)
            THEN [NoProc EXCEPT !.pc = "start"] ELSE proc["batch"][l]]]
  /\ UNCHANGED <<faults, cache, view, rec>>

\* stream_solve POST: the dashboard sends the links its shield does not
\* hold as solved; every one of them is processed.
StreamStart ==
  /\ runs["stream"].pc = "idle" /\ view # <<>>
  /\ LET linksToSend == SelectSeq(view, NotSolved) IN
       /\ linksToSend # <<>>
       /\ runs' = [runs EXCEPT !["stream"].pc = "running",
                     !["stream"].timerQ = TimerIds(linksToSend)]
       /\ proc' = [proc EXCEPT !["stream"] =
            [l \in LinkIds |->
               IF l \notin IdsOf(linksToSend) THEN NoProc
               ELSE IF IsTimerLink(l) THEN [NoProc EXCEPT !.pc = "queued"]
               ELSE [NoProc EXCEPT !.pc = "start"]]]
  /\ UNCHANGED <<task, faults, cache, view, age, rec>>

\* for (i ...) { budget not exceeded; await processLink(timerLinks[i]) }
TimerNext(r) ==
  /\ BetweenTimerLinks(r)
  /\ proc' = [proc EXCEPT ![r][runs[r].timerQ[runs[r].i]].pc = "start"]
  /\ runs' = [runs EXCEPT ![r].i = @ + 1]
  /\ UNCHANGED <<task, faults, cache, view, age, rec>>

\* The elapsed time is found over the budget before link i; it cannot be
\* before the first link, which starts with the clock.  solve_task goes on
\* to the deferred saves, stream_solve just leaves the loop.
BudgetExceeded(r) ==
  /\ BetweenTimerLinks(r)
  /\ runs[r].i >= 2
  /\ LET rest == {runs[r].timerQ[k] : k \in runs[r].i..Len(runs[r].timerQ)} IN
       IF r = "batch"
         THEN runs' = [runs EXCEPT ![r].pc = "defer", ![r].deferLeft = rest]
         ELSE runs' = [runs EXCEPT ![r].i = Len(runs[r].timerQ) + 1]
  /\ UNCHANGED <<task, faults, cache, view, proc, age, rec>>

\* One of the Promise.all deferred saves.
DeferSave(l) ==
  /\ runs["batch"].pc = "defer" /\ l \in runs["batch"].deferLeft
  /\ task' = saveResultToFirestore(task, l, UrlOf(l), Result("pending", Null))
  /\ proc' = [proc EXCEPT !["batch"][l].pc = "deferred"]
  /\ runs' = [runs EXCEPT
       !["batch"].deferLeft = @ \ {l},
       !["batch"].pc = IF runs["batch"].deferLeft = {l} THEN "running" ELSE @,
       !["batch"].i = Len(runs["batch"].timerQ) + 1]
  /\ UNCHANGED <<faults, cache, view, age, rec>>

\* getCachedLink as one read of link_cache with its write-back.
LookupNow(url) ==
  LET d == cache[hashUrl(url)] IN
    IF d.exists /\ ~IsExpired(d, now) /\ ~NotValid(d) THEN d ELSE NoDoc
TouchedCache(url) ==
  LET k == hashUrl(url)
      d == cache[k] IN
    IF ~d.exists THEN cache
    ELSE IF IsExpired(d, now) THEN [cache EXCEPT ![k].status = "expired"]
    ELSE IF NotValid(d) THEN cache
    ELSE [cache EXCEPT ![k].hitCount = d.hitCount + 1]

\* The race of a call is settled: solve_task retries a failed first attempt.
Raced(r, p, result) ==
  IF r = "batch" /\ ShouldRetry(result, p.attempt)
    THEN [NoProc EXCEPT !.pc = "start", !.attempt = 2]
    ELSE [p EXCEPT !.pc = "save", !.ret = result]

\* const cached = await getCachedLink(originalUrl); on a miss the race
\* Promise.race([solveWork(), timeout]) starts the chain.
ProcLookup(r, l) ==
  /\ Alive(r) /\ proc[r][l].pc = "start"
  /\ cache[hashUrl(UrlOf(l))].hitCount < MaxHits
  /\ LET cached == LookupNow(UrlOf(l)) IN
       proc' = [proc EXCEPT ![r][l] =
         IF CacheUsable(cached)
           THEN [@ EXCEPT !.pc = "hit", !.ret = Result("done", cached.finalLink)]
           ELSE [@ EXCEPT !.pc = "chain"]]
  /\ cache' = TouchedCache(UrlOf(l))
  /\ UNCHANGED <<task, faults, view, runs, age, rec>>

\* The save of the cache-hit branch, then return.
ProcCacheHitSave(r, l) ==
  /\ Alive(r) /\ proc[r][l].pc = "hit"
  /\ task' = IF r = "batch"
               THEN saveResultToFirestore(task, l, UrlOf(l), proc[r][l].ret)
               ELSE streamCacheHitSave(task, l, proc[r][l].ret.finalLink)
  /\ proc' = [proc EXCEPT ![r][l].pc = "finished"]
  /\ UNCHANGED <<faults, cache, view, runs, age, rec>>

\* The chain settles before the timeout, resolved or failed.
ChainEnds(r, l) ==
  /\ Alive(r) /\ proc[r][l].pc = "chain"
  /\ \E result \in {Result("done", "f1"), Result("error", Null)} :
       proc' = [proc EXCEPT ![r][l] = Raced(r, @, result)]
  /\ UNCHANGED <<task, faults, cache, view, runs, age, rec>>

\* The timeout wins the race.  Nothing cancels solveWork: the abandoned
\* chain goes on with its calls until they return or time out themselves.
ChainTimeout(r, l) ==
  /\ Alive(r) /\ proc[r][l].pc = "chain"
  /\ runs[r].abandoned < MaxAbandoned
  /\ proc' = [proc EXCEPT ![r][l] = Raced(r, @, Result("error", Null))]
  /\ runs' = [runs EXCEPT ![r].abandoned =
                IF IsTimerLink(l) THEN @ + 1 ELSE @]
  /\ UNCHANGED <<task, faults, cache, view, age, rec>>

\* An abandoned timer-class chain comes to its end; its result is dropped.
AbandonedEnds(r) ==
  /\ runs[r].abandoned > 0
  /\ runs' = [runs EXCEPT ![r].abandoned = @ - 1]
  /\ UNCHANGED <<task, faults, cache, view, proc, age, rec>>

\* await saveResultToFirestore(...) / await saveToFirestore(...)
ProcSave(r, l) ==
  /\ Alive(r) /\ proc[r][l].pc = "save"
  /\ task' = IF r = "batch"
               THEN saveResultToFirestore(task, l, UrlOf(l), proc[r][l].ret)
               ELSE saveToFirestore(task, l, UrlOf(l), proc[r][l].ret)
  /\ proc' = [proc EXCEPT ![r][l].pc =
       IF proc[r][l].ret.status = "done" /\ proc[r][l].ret.finalLink # Null
         THEN "cachewrite" ELSE "finished"]
  /\ UNCHANGED <<faults, cache, view, runs, age, rec>>

\* await setCachedLink(originalUrl, result.finalLink, ...)
ProcCacheWrite(r, l) ==
  /\ Alive(r) /\ proc[r][l].pc = "cachewrite"
  /\ cache' = [cache EXCEPT ![hashUrl(UrlOf(l))] =
       [exists |-> TRUE, finalLink |-> proc[r][l].ret.finalLink,
        expiresAt |-> now + CacheExpiryTicks, hitCount |-> 0,
        status |-> "valid"]]
  /\ proc' = [proc EXCEPT ![r][l].pc = "finished"]
  /\ UNCHANGED <<task, faults, view, runs, age, rec>>

\* Promise.all / Promise.allSettled over both groups resolves: the run ends.
RunReturn(r) ==
  /\ runs[r].pc = "running" /\ runs[r].i > Len(runs[r].timerQ)
  /\ \A l \in LinkIds :
       proc[r][l].pc \in {"none", "queued", "finished", "deferred"}
  /\ runs' = [runs EXCEPT ![r].pc = "done"]
  /\ UNCHANGED <<task, faults, cache, view, proc, age, rec>>

\* The host ends the invocation at its execution ceiling, at any await.
Kill(r) ==
  /\ Alive(r)
  /\ runs' = [runs EXCEPT ![r].pc = "killed", ![r].abandoned = 0]
  /\ proc' = [proc EXCEPT ![r] = [l \in LinkIds |-> NoProc]]
  /\ UNCHANGED <<task, faults, cache, view, age, rec>>

\* Ten minutes go by since processingStartedAt; no solve_task run can
\* still be alive then, a stream started since can.
PassTenMinutes ==
  /\ age = "fresh" /\ ~Alive("batch")
  /\ age' = "stale"
  /\ UNCHANGED <<task, faults, cache, view, runs, proc, rec>>

\* recoverStuckTasks part B ("recover", threshold 10 min) or reset-stuck with
\* forceAll ("reset", threshold 0): the query for tasks in 'processing'.
StuckRead(kind) ==
  /\ rec.pc = "idle"
  /\ task.exists /\ task.status = "processing"
  /\ kind = "recover" => age = "stale"
  /\ rec' = [pc |-> "read", kind |-> kind, links |-> task.links]
  /\ UNCHANGED <<task, faults, cache, view, runs, proc, age>>

\* doc.ref.update(...) computed from the links the query returned.
StuckWrite ==
  /\ rec.pc = "read"
  /\ task' = RecoveredTask(task, rec.links)
  /\ rec' = NoPass
  /\ UNCHANGED <<faults, cache, view, runs, proc, age>>

\* A task as POST /api/tasks leaves it, with two pending links; the cache
\* may hold results of earlier tasks for their urls.
InitTask ==
  /\ now = 1
  /\ lk = NoLookup /\ pl = NoCall /\ hist = NoHist
  /\ faults = FALSE
  /\ \E held \in {{}, {"review-tech.io/r"}} :
       cache = [k \in TaskKeys |->
                  IF k \in held
                    THEN [exists |-> TRUE, finalLink |-> "f2", expiresAt |-> 2,
                          hitCount |-> 0, status |-> "valid"]
                    ELSE NoDoc]
  /\ \E ls \in TaskShapes :
       task = [exists |-> TRUE, status |-> "pending", links |-> ls]
  /\ NoRuns

outsideTask == <<now, lk, pl, hist, queueVars, ui, post, net, chan, strm, clk, lks, sent>>

NextTask ==
  \/ ClientFetch /\ UNCHANGED outsideTask
  \/ BatchRead /\ UNCHANGED outsideTask
  \/ BatchMark /\ UNCHANGED outsideTask
  \/ StreamStart /\ UNCHANGED outsideTask
  \/ (\E r \in Runs : TimerNext(r)) /\ UNCHANGED outsideTask
  \/ (\E r \in Runs : BudgetExceeded(r)) /\ UNCHANGED outsideTask
  \/ (\E l \in LinkIds : DeferSave(l)) /\ UNCHANGED outsideTask
  \/ (\E r \in Runs, l \in LinkIds : ProcLookup(r, l)) /\ UNCHANGED outsideTask
  \/ (\E r \in Runs, l \in LinkIds : ProcCacheHitSave(r, l))
       /\ UNCHANGED outsideTask
  \/ (\E r \in Runs, l \in LinkIds : ChainEnds(r, l)) /\ UNCHANGED outsideTask
  \/ (\E r \in Runs, l \in LinkIds : ChainTimeout(r, l))
       /\ UNCHANGED outsideTask
  \/ (\E r \in Runs : AbandonedEnds(r)) /\ UNCHANGED outsideTask
  \/ (\E r \in Runs, l \in LinkIds : ProcSave(r, l)) /\ UNCHANGED outsideTask
  \/ (\E r \in Runs, l \in LinkIds : ProcCacheWrite(r, l))
       /\ UNCHANGED outsideTask
  \/ (\E r \in Runs : RunReturn(r)) /\ UNCHANGED outsideTask
  \/ (\E r \in Runs : Kill(r)) /\ UNCHANGED outsideTask
  \/ PassTenMinutes /\ UNCHANGED outsideTask
  \/ (\E kind \in {"recover", "reset"} : StuckRead(kind))
       /\ UNCHANGED outsideTask
  \/ StuckWrite /\ UNCHANGED outsideTask

SpecTask == InitTask /\ [][NextTask]_vars

(***************************************************************************)
(* C10: a lookup never returns an entry that, when the lookup read it, was *)
(* past its expiresAt or had a status other than 'valid' (broken or        *)
(* expired): whatever stores, markBroken calls, sweeps and clock advances  *)
(* came before, such a lookup returns null.                                *)
(***************************************************************************)
C10_StaleEntryNeverServed ==
  (lk.pc = "returned" /\ lk.data.exists
     /\ (lk.data.expiresAt < lk.at \/ lk.data.status \in {"broken", "expired"}))
    => lk.ret = NoDoc

\* A lookup has returned a miss on an entry that exists and is past its
\* expiresAt, and has marked it expired on the way.
C10_Witness ==
  /\ lk.pc = "returned"
  /\ lk.ret = NoDoc
  /\ lk.data.exists
  /\ lk.data.status = "valid"
  /\ lk.data.expiresAt < lk.at
  /\ cache[hashUrl(lk.url)].status = "expired"


Finished == pl.pc \in {"returned", "threw"}
PersistedLink == task.links[1]

(***************************************************************************)
(* C8 (as amended): a failure of the first attempt (error result or the    *)
(* 20 s timeout) makes processLink re-run itself exactly once, as attempt  *)
(* 2, and never a third time; the retry starts with a fresh cache lookup,  *)
(* so a call that failed once has looked the cache up twice and has run    *)
(* the chain twice, or once when the retry's lookup was a hit.  An error   *)
(* result is only ever saved by attempt 2.                                 *)
(***************************************************************************)
C8_RetryOnceWithLookup ==
  /\ pl.attempt \in {1, 2}
  /\ hist.chains <= 2
  /\ hist.lookups = IF pl.pc = "start" THEN pl.attempt - 1 ELSE pl.attempt
  /\ (pl.attempt = 2) <=> (hist.fails >= 1)
  /\ (pl.pc \in {"save", "returned", "threw"} /\ pl.ret.status = "error")
       => pl.attempt = 2 /\ hist.fails = 2 /\ hist.chains = 2
  /\ (Finished /\ hist.fails >= 1)
       => (hist.chains = 2 \/ (pl.viaCache /\ hist.chains = 1))

\* The first attempt failed, the retry looked the cache up again, missed,
\* ran the chain a second time, and the call has returned.
C8_Witness ==
  /\ pl.pc = "returned" /\ pl.attempt = 2
  /\ hist.lookups = 2 /\ hist.chains = 2 /\ hist.fails >= 1
  /\ ~pl.viaCache

\* C8 as stated: after a failure the whole chain is run again exactly once,
\* and the cache is consulted only before the first attempt.
C8_Original ==
  /\ hist.lookups <= 1
  /\ hist.chains <= 2
  /\ (Finished /\ hist.fails >= 1) => hist.chains = 2

(***************************************************************************)
(* C9 (as amended): when an attempt's cache lookup is a live hit and the   *)
(* save of the hit goes through, processLink persists the link as 'done'   *)
(* with the cached finalLink and returns 'done' without starting the chain *)
(* after that lookup: zero chain executions when the hit is on the first   *)
(* attempt's lookup, the one failed execution of attempt 1 when it is on   *)
(* the retry's lookup.  Only a throwing save lets a hit go on to the chain.*)
(***************************************************************************)
C9_HitSkipsChain ==
  /\ pl.cached.exists => (pl.viaCache \/ faults)
  /\ pl.viaCache =>
       /\ pl.pc = "returned"
       /\ pl.cached.exists
       /\ pl.ret = Result("done", pl.cached.finalLink)
       /\ PersistedLink.status = "done"
       /\ PersistedLink.finalLink = pl.cached.finalLink
       /\ hist.chains = pl.attempt - 1
       /\ hist.calls = 0 \/ pl.attempt = 2

\* A live hit on the first lookup: returned from the cache, no chain run.
C9_Witness ==
  /\ pl.viaCache /\ pl.attempt = 1 /\ ~faults
  /\ hist.chains = 0 /\ hist.calls = 0
  /\ PersistedLink.status = "done"

\* C9 as stated: a live hit means the call returns 'done' with zero chain
\* executions.
C9_Original ==
  (pl.cached.exists /\ ~faults)
    => (pl.viaCache /\ pl.ret.status = "done" /\ hist.chains = 0)


(***************************************************************************)
(* The intake queue: the scheduled invocations of cron/process-queue, the  *)
(* dashboard's auto-pilot loop and the admin reset-stuck pass working on   *)
(* the items of movies_queue and webseries_queue.  A link of a run's task  *)
(* is resolved in one step, to the result processLink returns for it.      *)
(***************************************************************************)
ItemCol(i) == IF i = "w1" THEN "webseries_queue" ELSE "movies_queue"
CreatedAt(i) == CASE i = "w1" -> 1 [] i = "m1" -> 2 [] OTHER -> 3
queueCollections == <<"movies_queue", "webseries_queue">>

Item(status, retryCount, lock) ==
  [status |-> status, retryCount |-> retryCount, lock |-> lock]

\* The link lists extraction can return, by routing class.
PageShapes == {<<"direct">>, <<"timer", "timer">>}
NewLinks(shape) ==
  [k \in DOMAIN shape |-> [class |-> shape[k], status |-> "pending"]]

\* .where('status', '==', 'pending').orderBy('createdAt', 'asc').limit(1),
\* movies_queue first.
PendingIn(col) ==
  {i \in DOMAIN items : ItemCol(i) = col /\ items[i].status = "pending"}
\* orderBy('createdAt', 'desc')
Latest(S) == CHOOSE i \in S : \A j \in S : CreatedAt(i) >= CreatedAt(j)
Earliest(S) == CHOOSE i \in S : \A j \in S : CreatedAt(i) <= CreatedAt(j)
PickItem ==
  IF PendingIn(queueCollections[1]) # {}
    THEN Earliest(PendingIn(queueCollections[1]))
  ELSE IF PendingIn(queueCollections[2]) # {}
    THEN Earliest(PendingIn(queueCollections[2]))
  ELSE ""

\* A recovery that counts the retry and leaves the item in 'processing'.
RecoveredItemStillProcessing(d) == [d EXCEPT !.retryCount = @ + 1]

\* recoverStuckTasks part A: the update of one stuck item.
RecoveredItem(d) ==
  LET retryCount == d.retryCount + 1 IN
    IF retryCount > MAX_CRON_RETRIES
      THEN [d EXCEPT !.status = "failed"]
      ELSE Item("pending", retryCount, "none")

\* reset-stuck part 2: the update of one item in 'processing'.
ResetItem(d) ==
  LET retryCount == d.retryCount + 1 IN
    Item(IF retryCount > MAX_CRON_RETRIES THEN "failed" ELSE "pending",
         retryCount, "none")

\* Step 8: what the run computes from the results of its links.
DoneCount(ls) == Cardinality({k \in DOMAIN ls : ls[k].status = "done"})
ErrorCount(ls) == Cardinality({k \in DOMAIN ls : ls[k].status = "error"})
HasDeferredLinks(ls) == \E k \in DOMAIN ls : ls[k].status = "deferred"
AllLinksSucceeded(ls) ==
  ~HasDeferredLinks(ls) /\ ErrorCount(ls) = 0 /\ DoneCount(ls) = Len(ls)
FinalStatus(ls) ==
  IF HasDeferredLinks(ls) THEN "pending"
  ELSE IF AllLinksSucceeded(ls) THEN "completed"
  ELSE "failed"

\* The next link of the sequential loop, 0 when the loop is over.
NextTimer(ls) ==
  LET left == {k \in DOMAIN ls : ls[k].class = "timer" /\ ls[k].status = "pending"}
  IN IF left = {} THEN 0 ELSE CHOOSE k \in left : \A j \in left : k <= j
CanSolve(ls, k) ==
  /\ k \in DOMAIN ls /\ ls[k].status = "pending"
  /\ ls[k].class = "timer" => k = NextTimer(ls)
Deferred(ls) ==
  [k \in DOMAIN ls |->
     IF ls[k].class = "timer" /\ ls[k].status = "pending"
       THEN [ls[k] EXCEPT !.status = "deferred"] ELSE ls[k]]
AllSettled(ls) == \A k \in DOMAIN ls : ls[k].status # "pending"

Working(c) == cron[c].pc \in {"extract", "solve"}

\* Step 1: heartbeat 'running'.
CronStart(c) ==
  /\ cron[c].pc = "idle"
  /\ cron' = [cron EXCEPT ![c].pc = "recover"]
  /\ heartbeat' = "running"
  /\ UNCHANGED <<items, pilot, cache>>

\* Step 2: recoverStuckTasks part A over both collections.
CronRecover(c) ==
  /\ cron[c].pc = "recover"
  /\ items' = [i \in DOMAIN items |->
       IF items[i].status = "processing" /\ items[i].lock = "stale"
         THEN RecoveredItem(items[i]) ELSE items[i]]
  /\ cron' = [cron EXCEPT ![c].pc = "pick"]
  /\ UNCHANGED <<pilot, heartbeat, cache>>

\* Step 3: pick one pending item; an empty queue ends the run.
CronPick(c) ==
  /\ cron[c].pc = "pick"
  /\ IF PickItem = ""
       THEN /\ cron' = [cron EXCEPT ![c] = NoCron]
            /\ heartbeat' = "idle"
       ELSE /\ cron' = [cron EXCEPT ![c].pc = "lock", ![c].item = PickItem,
                          ![c].retryCount = items[PickItem].retryCount]
            /\ heartbeat' = heartbeat
  /\ UNCHANGED <<items, pilot, cache>>

\* Step 4: lock the item picked.
CronLock(c) ==
  /\ cron[c].pc = "lock"
  /\ items' = [items EXCEPT ![cron[c].item] =
                 Item("processing", cron[c].retryCount, "fresh")]
  /\ cron' = [cron EXCEPT ![c].pc = "extract"]
  /\ UNCHANGED <<pilot, heartbeat, cache>>

\* A top-level catch that returns without a heartbeat.
CatchWithoutHeartbeat(h) == h

\* catch (err) { await updateHeartbeat('error', err.message); ... }
TopLevelCatch(h) == "error"

\* Step 5 fails: release the item, rethrow to the top-level catch.
CronExtractFails(c) ==
  /\ cron[c].pc = "extract"
  /\ LET currentRetries == cron[c].retryCount
         isFinalFail == currentRetries >= MAX_CRON_RETRIES IN
       items' = [items EXCEPT ![cron[c].item] =
         Item(IF isFinalFail THEN "failed" ELSE "pending",
              currentRetries + 1, "none")]
  /\ cron' = [cron EXCEPT ![c] = NoCron]
  /\ heartbeat' = TopLevelCatch(heartbeat)
  /\ UNCHANGED <<pilot, cache>>

\* Step 5 succeeds: the task is created with every link 'pending'.
CronCreateTask(c) ==
  /\ cron[c].pc = "extract"
  /\ \E shape \in PageShapes :
       cron' = [cron EXCEPT ![c].pc = "solve", ![c].links = NewLinks(shape)]
  /\ UNCHANGED <<items, pilot, heartbeat, cache>>

\* Step 7: one processLink call returns.
CronSolveLink(c, k) ==
  /\ cron[c].pc = "solve" /\ CanSolve(cron[c].links, k)
  /\ \E st \in {"done", "error"} :
       cron' = [cron EXCEPT ![c].links[k].status = st]
  /\ UNCHANGED <<items, pilot, heartbeat, cache>>

\* Step 7: the budget, counted from the start of the invocation, is found
\* exceeded before a sequenced link: that link and the later ones are saved
\* 'pending'.
CronDefer(c) ==
  /\ cron[c].pc = "solve" /\ NextTimer(cron[c].links) # 0
  /\ cron' = [cron EXCEPT ![c].links = Deferred(@)]
  /\ UNCHANGED <<items, pilot, heartbeat, cache>>

\* Step 8: the queue item's status update.
CronFinal(c) ==
  /\ cron[c].pc = "solve" /\ AllSettled(cron[c].links)
  /\ LET st == FinalStatus(cron[c].links)
         d == items[cron[c].item] IN
       items' = [items EXCEPT ![cron[c].item] =
         Item(st, cron[c].retryCount,
              IF st = "pending" THEN "none" ELSE d.lock)]
  /\ cron' = [cron EXCEPT ![c] = [NoCron EXCEPT !.pc = "wrapup"]]
  /\ UNCHANGED <<pilot, heartbeat, cache>>

\* Steps 8.5 and 9: cleanupExpiredCache, heartbeat 'idle', response.
CronWrapUp(c) ==
  /\ cron[c].pc = "wrapup"
  /\ cache' = [k \in DOMAIN cache |->
       IF cache[k].exists /\ cache[k].expiresAt < now THEN NoDoc ELSE cache[k]]
  /\ heartbeat' = "idle"
  /\ cron' = [cron EXCEPT ![c] = NoCron]
  /\ UNCHANGED <<items, pilot>>

\* An awaited call inside the try rejects (a query, the update of a
\* document deleted meanwhile, the creation of the task): the top-level
\* catch ends the invocation, whatever it had locked stays as it is.
CronThrows(c) ==
  /\ cron[c].pc # "idle"
  /\ cron' = [cron EXCEPT ![c] = NoCron]
  /\ heartbeat' = TopLevelCatch(heartbeat)
  /\ UNCHANGED <<items, pilot, cache>>

\* The host ends the invocation at its execution ceiling.
CronKill(c) ==
  /\ cron[c].pc # "idle"
  /\ cron' = [cron EXCEPT ![c] = NoCron]
  /\ UNCHANGED <<items, pilot, heartbeat, cache>>

\* Ten minutes go by since lockedAt; the invocation that wrote it is gone.
LockGoesStale(i) ==
  /\ items[i].status = "processing" /\ items[i].lock = "fresh"
  /\ \A c \in CronIds : cron[c].pc = "idle" \/ cron[c].item # i
  /\ items' = [items EXCEPT ![i].lock = "stale"]
  /\ UNCHANGED <<cron, pilot, heartbeat, cache>>

\* POST /api/admin/reset-stuck with forceAll, parts 2 and 4.
AdminReset ==
  /\ \E i \in ItemIds : items[i].status = "processing"
  /\ items' = [i \in ItemIds |->
       IF items[i].status = "processing" THEN ResetItem(items[i]) ELSE items[i]]
  /\ heartbeat' = "idle"
  /\ UNCHANGED <<cron, pilot, cache>>

\* runAutoPilot: GET /api/auto-process/queue, keep the pending items.
PilotFetch ==
  /\ pilot.pc = "idle"
  /\ LET pendingItems ==
           SelectSeq(<<"m1", "w1">>,
                     LAMBDA i : items[i].status = "pending") IN
       /\ pendingItems # <<>>
       /\ pilot' = [NoPilot EXCEPT !.pc = "task", !.queue = pendingItems]
  /\ UNCHANGED <<items, cron, heartbeat, cache>>

\* processQueueItemAutoPilot steps 1 and 2: POST /api/tasks creates the
\* task, or fails and throws.
PilotCreateTask ==
  /\ pilot.pc = "task"
  /\ \/ \E shape \in PageShapes :
          pilot' = [pilot EXCEPT !.pc = "solve", !.links = NewLinks(shape)]
     \/ pilot' = [pilot EXCEPT !.pc = "patch", !.threw = TRUE]
  /\ UNCHANGED <<items, cron, heartbeat, cache>>

\* Step 3, inside POST /api/solve_task: one processLink call returns.
PilotSolveLink(k) ==
  /\ pilot.pc = "solve" /\ CanSolve(pilot.links, k)
  /\ \E st \in {"done", "error"} :
       pilot' = [pilot EXCEPT !.links[k].status = st]
  /\ UNCHANGED <<items, cron, heartbeat, cache>>

\* Step 3, inside POST /api/solve_task: the budget, counted from the start
\* of the loop, is found exceeded before a later sequenced link.
PilotDefer ==
  /\ pilot.pc = "solve" /\ NextTimer(pilot.links) # 0
  /\ \E k \in DOMAIN pilot.links :
       pilot.links[k].class = "timer" /\ pilot.links[k].status # "pending"
  /\ pilot' = [pilot EXCEPT !.links = Deferred(@)]
  /\ UNCHANGED <<items, cron, heartbeat, cache>>

\* Step 3: solve_task answers; a response that is not ok throws.
PilotSolved ==
  /\ pilot.pc = "solve"
  /\ \/ /\ AllSettled(pilot.links)
        /\ pilot' = [pilot EXCEPT !.pc = "patch"]
     \/ pilot' = [pilot EXCEPT !.pc = "patch", !.threw = TRUE, !.links = <<>>]
  /\ UNCHANGED <<items, cron, heartbeat, cache>>

\* patchQueueStatus(item, 'completed') after an ok response,
\* patchQueueStatus(item, 'failed', errorMsg) in the catch; next item.
PilotPatch ==
  /\ pilot.pc = "patch"
  /\ items' = [items EXCEPT ![Head(pilot.queue)].status =
                 IF pilot.threw THEN "failed" ELSE "completed"]
  /\ pilot' = IF Tail(pilot.queue) = <<>> THEN NoPilot
              ELSE [NoPilot EXCEPT !.pc = "task", !.queue = Tail(pilot.queue)]
  /\ UNCHANGED <<cron, heartbeat, cache>>

\* One pending item, never tried before, in either collection; the other
\* collection holds an item completed earlier.
InitQueue ==
  /\ now = 1
  /\ cache = [k \in CacheKeys |-> NoDoc]
  /\ lk = NoLookup /\ pl = NoCall /\ hist = NoHist
  /\ task = NoTask
  /\ faults = FALSE
  /\ NoTaskRuns
  /\ \E p \in ItemIds :
       items = [i \in ItemIds |->
                  IF i = p THEN Item("pending", 0, "none")
                  ELSE Item("completed", 0, "none")]
  /\ cron = [c \in CronIds |-> NoCron]
  /\ pilot = NoPilot
  /\ heartbeat = "idle"

outsideQueue == <<now, lk, linkVars, runVars, ui, post, net, chan, strm, clk, lks, sent>>

NextQueue ==
  \/ (\E c \in CronIds : CronStart(c)) /\ UNCHANGED outsideQueue
  \/ (\E c \in CronIds : CronRecover(c)) /\ UNCHANGED outsideQueue
  \/ (\E c \in CronIds : CronPick(c)) /\ UNCHANGED outsideQueue
  \/ (\E c \in CronIds : CronLock(c)) /\ UNCHANGED outsideQueue
  \/ (\E c \in CronIds : CronExtractFails(c)) /\ UNCHANGED outsideQueue
  \/ (\E c \in CronIds : CronCreateTask(c)) /\ UNCHANGED outsideQueue
  \/ (\E c \in CronIds, k \in 1..2 : CronSolveLink(c, k))
       /\ UNCHANGED outsideQueue
  \/ (\E c \in CronIds : CronDefer(c)) /\ UNCHANGED outsideQueue
  \/ (\E c \in CronIds : CronFinal(c)) /\ UNCHANGED outsideQueue
  \/ (\E c \in CronIds : CronWrapUp(c)) /\ UNCHANGED outsideQueue
  \/ (\E c \in CronIds : CronThrows(c)) /\ UNCHANGED outsideQueue
  \/ (\E c \in CronIds : CronKill(c)) /\ UNCHANGED outsideQueue
  \/ (\E i \in ItemIds : LockGoesStale(i)) /\ UNCHANGED outsideQueue
  \/ AdminReset /\ UNCHANGED outsideQueue
  \/ PilotFetch /\ UNCHANGED outsideQueue
  \/ PilotCreateTask /\ UNCHANGED outsideQueue
  \/ (\E k \in 1..2 : PilotSolveLink(k)) /\ UNCHANGED outsideQueue
  \/ PilotDefer /\ UNCHANGED outsideQueue
  \/ PilotSolved /\ UNCHANGED outsideQueue
  \/ PilotPatch /\ UNCHANGED outsideQueue

SpecQueue == InitQueue /\ [][NextQueue]_vars

\* The runs working on item i: the invocations that locked it and the
\* auto-pilot loop while i is its current item.
Holders(i) ==
  {c \in CronIds : Working(c) /\ cron[c].item = i}
    \cup (IF pilot.pc \in {"task", "solve"} /\ Head(pilot.queue) = i
            THEN {"pilot"} ELSE {})

\* The runs that have created a Task for item i and are resolving it.
TaskMakers(i) ==
  {c \in CronIds : cron[c].pc = "solve" /\ cron[c].item = i}
    \cup (IF pilot.pc = "solve" /\ Head(pilot.queue) = i
            THEN {"pilot"} ELSE {})

\* Every link the run set out with ended 'done', none deferred.
EveryLinkDone(ls) == \A k \in DOMAIN ls : ls[k].status = "done"

(***************************************************************************)
(* C3: no QueueItem is worked on by two runs at once (scheduled            *)
(* invocations or the auto-pilot loop), and no QueueItem has two Tasks     *)
(* being resolved for it at once.                                          *)
(***************************************************************************)
C3_OneHolderPerItem ==
  \A i \in ItemIds :
    Cardinality(Holders(i)) <= 1 /\ Cardinality(TaskMakers(i)) <= 1

(***************************************************************************)
(* C4: the status a run writes to its QueueItem at its end is 'completed'  *)
(* only if every link it set out with ended 'done' and none was deferred,  *)
(* and is 'failed' if any link ended in error or was deferred.             *)
(***************************************************************************)
C4_AllOrNothing ==
  [][/\ \A c \in CronIds :
          (cron[c].pc = "solve" /\ cron'[c].pc = "wrapup")
            => LET st == items'[cron[c].item].status IN
                 /\ st = "completed" => EveryLinkDone(cron[c].links)
                 /\ ~EveryLinkDone(cron[c].links) => st = "failed"
     /\ (pilot.pc = "patch" /\ ~pilot.threw /\ pilot'.pc # "patch")
          => LET st == items'[Head(pilot.queue)].status IN
               /\ st = "completed" => EveryLinkDone(pilot.links)
               /\ ~EveryLinkDone(pilot.links) => st = "failed"]_vars

(***************************************************************************)
(* C5: every step that takes a QueueItem out of 'processing' into a        *)
(* non-completed status (extraction failure, link failure, deferral, stuck *)
(* recovery) adds one to its retryCount, and an item that is 'failed' with *)
(* retryCount past the cap of 3 stays 'failed'.                            *)
(***************************************************************************)
C5_RetryCountAndCap ==
  [][\A i \in ItemIds :
       /\ (items[i].status = "processing"
             /\ items'[i].status \in {"pending", "failed"})
            => items'[i].retryCount = items[i].retryCount + 1
       /\ (items[i].status = "failed" /\ items[i].retryCount > MAX_CRON_RETRIES)
            => items'[i].status = "failed"]_vars

\* The timer-class chains executing for the task: those a live call is
\* racing against its timeout, and the abandoned ones still running.
ExecutingTimerChains(r) ==
  runs[r].abandoned
    + Cardinality({l \in LinkIds : IsTimerLink(l) /\ proc[r][l].pc = "chain"})

\* The status the specification derives from a links array.
ClaimedStatus(ls) ==
  IF \E i \in DOMAIN ls : ls[i].status \notin {"done", "error"}
    THEN "processing"
  ELSE IF \E i \in DOMAIN ls : ls[i].status = "done" THEN "completed"
  ELSE "failed"

(***************************************************************************)
(* C1: every step that writes the links of the Task (a save of either run, *)
(* the stream's cache-hit save, a deferred save, stuck recovery, the admin *)
(* reset) leaves Task.status equal to the function of the written links:   *)
(* 'processing' while a link is non-terminal, 'completed' when all are     *)
(* terminal and one is done, 'failed' when all are terminal and none is.   *)
(***************************************************************************)
C1_StatusFollowsLinks ==
  [][task'.links # task.links => task'.status = ClaimedStatus(task'.links)]_vars

(***************************************************************************)
(* C2: terminal link states are write-once: no step of a run, of the       *)
(* deferred checkpoint, of stuck recovery or of the admin reset changes    *)
(* the status or the finalLink of a link persisted as 'done' or 'error'.   *)
(***************************************************************************)
C2_TerminalWriteOnce ==
  [][\A i \in DOMAIN task.links :
       task.links[i].status \in {"done", "error"}
         => /\ task'.links[i].status = task.links[i].status
            /\ task'.links[i].finalLink = task.links[i].finalLink]_vars

(***************************************************************************)
(* C6: a deferred save of the time-budget checkpoint persists its link as  *)
(* 'pending', and every link that was 'done' before it is still 'done'     *)
(* with the same finalLink after it; once the budget is found exceeded the *)
(* run starts no further sequenced link.                                   *)
(***************************************************************************)
C6_CheckpointKeepsDone ==
  [][(runs["batch"].pc = "defer"
        /\ runs'["batch"].deferLeft # runs["batch"].deferLeft)
       => /\ \A l \in runs["batch"].deferLeft \ runs'["batch"].deferLeft :
               task'.links[l + 1].status = "pending"
          /\ \A i \in DOMAIN task.links :
               task.links[i].status = "done"
                 => /\ task'.links[i].status = "done"
                    /\ task'.links[i].finalLink = task.links[i].finalLink
          /\ \A l \in LinkIds :
               proc["batch"][l].pc = "queued" => proc'["batch"][l].pc # "start"]_vars

(***************************************************************************)
(* C7: at every instant at most one timer-class chain attempt is executing *)
(* for the Task, counting the attempts of both runs and the attempts the   *)
(* timeout race has abandoned.                                             *)
(***************************************************************************)
C7_SequencedNeverOverlap ==
  ExecutingTimerChains("batch") + ExecutingTimerChains("stream") <= 1

\* The document setCachedLink(u, f) has just written, the clock not having
\* moved since.
JustStored(f) ==
  [exists |-> TRUE, finalLink |-> f, expiresAt |-> now + CacheExpiryTicks,
   hitCount |-> 0, status |-> "valid"]

(***************************************************************************)
(* C11: round trip of the cache.  A lookup of u that reads the document a  *)
(* store of (u, f) has just written is a hit on f, and when nothing comes  *)
(* between its read and its counter update it returns f and leaves the     *)
(* stored hitCount at 1, everything else of the document as stored.  A     *)
(* lookup that reads a document whose expiresAt is in the past returns a   *)
(* miss.                                                                   *)
(***************************************************************************)
C11_CacheRoundTrip ==
  [][/\ \A u \in CacheUrls, f \in FinalLinks :
          (GetCachedLinkRead(u) /\ cache[hashUrl(u)] = JustStored(f))
            => lk'.pc = "hit" /\ lk'.data.finalLink = f
     /\ \A f \in FinalLinks :
          (GetCachedLinkHit /\ lk.data = JustStored(f)
             /\ cache[hashUrl(lk.url)] = lk.data)
            => /\ lk'.pc = "returned"
               /\ lk'.ret.exists /\ lk'.ret.finalLink = f
               /\ cache'[hashUrl(lk.url)] =
                    [JustStored(f) EXCEPT !.hitCount = 1]
     /\ \A u \in CacheUrls :
          (GetCachedLinkRead(u) /\ cache[hashUrl(u)].exists
             /\ cache[hashUrl(u)].expiresAt < now)
            => lk'.pc = "expire" /\ lk'.ret = NoDoc
     /\ GetCachedLinkExpire => lk'.pc = "returned" /\ lk'.ret = NoDoc]_vars

\* A store and the lookup right after it: the lookup has returned the
\* stored finalLink and the stored hitCount went from 0 to 1.
C11_Witness ==
  /\ lk.pc = "returned" /\ lk.at = now
  /\ lk.ret.exists /\ lk.ret.hitCount = 0
  /\ lk.ret.expiresAt = now + CacheExpiryTicks
  /\ cache[hashUrl(lk.url)] = [lk.ret EXCEPT !.hitCount = 1]

(***************************************************************************)
(* C12: a cache read that throws never fails the call.  The lookup comes   *)
(* back as a miss, nothing is persisted for it, the call goes on to the    *)
(* resolver chain exactly as for an absent entry, and the chain is         *)
(* started.                                                                *)
(***************************************************************************)
C12_ReadFailureIsMiss ==
  [][/\ (pl.pc = "start" /\ pl' # pl /\ lk'.data = ReadFailed)
          => /\ pl'.pc = "lookup"
             /\ lk'.pc = "returned" /\ lk'.ret = NoDoc
             /\ task' = task /\ cache' = cache
     /\ (pl.pc = "lookup" /\ pl' # pl /\ lk.data = ReadFailed)
          => /\ pl' = [pl EXCEPT !.pc = "solve"]
             /\ task' = task
     /\ (pl.pc = "solve" /\ pl' # pl)
          => /\ hist'.chains = hist.chains + 1
             /\ pl'.pc \in {"call", "save", "start"}]_vars

\* The read of the cache threw, the chain ran and the call returned 'done'.
C12_Witness ==
  /\ lk.data = ReadFailed
  /\ pl.pc = "returned" /\ ~pl.viaCache
  /\ pl.ret.status = "done"
  /\ hist.chains >= 1
  /\ PersistedLink.status = "done"

(***************************************************************************)
(* C13: a Link Processor call on a link id that is already persisted as    *)
(* 'done' never changes that link's finalLink, whatever the cache holds    *)
(* and whatever the resolver chain returns.                                *)
(***************************************************************************)
C13_SecondCallKeepsFinalLink ==
  [][PersistedLink.status = "done"
       => task'.links[1].finalLink = PersistedLink.finalLink]_vars

(***************************************************************************)
(* Stuck-work recovery on its own: recoverStuckTasks of the scheduled run  *)
(* and the admin reset-stuck pass, on one Task and the QueueItem it was    *)
(* created for.  A pass reads the Task, and writes it back from what it    *)
(* read; a run still working on the Task can save a link in between.       *)
(***************************************************************************)
LinkStates == {"pending", "processing", "done", "error"}
StuckLink(id, url, st) ==
  Link(id, url, st, IF st = "done" THEN "f1" ELSE Null)

\* The items a pass updates: 'processing' past the threshold.
StuckItem(kind, d) ==
  d.status = "processing" /\ (kind = "reset" \/ d.lock = "stale")
\* The tasks a pass updates: 'processing' past the threshold.
StuckTask(kind, t, a) ==
  t.exists /\ t.status = "processing" /\ (kind = "reset" \/ a = "stale")

\* The queue collections after a pass over them.
ItemsAfter(kind, it) ==
  [i \in DOMAIN it |->
     IF StuckItem(kind, it[i])
       THEN IF kind = "recover" THEN RecoveredItem(it[i]) ELSE ResetItem(it[i])
       ELSE it[i]]
\* The task after a pass that nothing interleaves with.
TaskAfter(kind, t, a) ==
  IF StuckTask(kind, t, a) THEN RecoveredTask(t, t.links) ELSE t

\* recoverStuckTasks: part A, then the query of part B.
RecoverBegin ==
  /\ rec.pc \in {"idle", "ran"}
  /\ items' = ItemsAfter("recover", items)
  /\ rec' = IF StuckTask("recover", task, age)
              THEN [pc |-> "read", kind |-> "recover", links |-> task.links]
              ELSE [pc |-> "ran", kind |-> "recover", links |-> <<>>]
  /\ UNCHANGED <<task, age>>

\* reset-stuck with forceAll: the query of part 1; part 2 when no task is
\* in 'processing'.
ResetBegin ==
  /\ rec.pc \in {"idle", "ran"}
  /\ IF StuckTask("reset", task, age)
       THEN /\ rec' = [pc |-> "read", kind |-> "reset", links |-> task.links]
            /\ items' = items
       ELSE /\ rec' = [pc |-> "ran", kind |-> "reset", links |-> <<>>]
            /\ items' = ItemsAfter("reset", items)
  /\ UNCHANGED <<task, age>>

\* The update of the task from the links read; reset-stuck goes on to its
\* part 2.
RecWrite ==
  /\ rec.pc = "read"
  /\ task' = RecoveredTask(task, rec.links)
  /\ items' = IF rec.kind = "reset" THEN ItemsAfter("reset", items) ELSE items
  /\ rec' = [rec EXCEPT !.pc = "ran"]
  /\ UNCHANGED age

\* A stream_solve run started on the old task saves the link it resolved.
LateSave(l) ==
  /\ task.status = "processing"
  /\ task.links[l + 1].status \in {"pending", "processing"}
  /\ task' = saveResultToFirestore(task, l, task.links[l + 1].link,
                                   Result("done", "f2"))
  /\ UNCHANGED <<items, age, rec>>

\* A Task left in 'processing' by a run that is gone, and the QueueItem
\* locked for it.
InitRecovery ==
  /\ now = 1
  /\ cache = [k \in CacheKeys |-> NoDoc]
  /\ lk = NoLookup /\ pl = NoCall /\ hist = NoHist
  /\ faults = FALSE
  /\ NoTaskRuns
  /\ \E s0 \in LinkStates, s1 \in LinkStates :
       task = [exists |-> TRUE, status |-> "processing",
               links |-> <<StuckLink(0, "gadgetsweb.xyz/g", s0),
                           StuckLink(1, "hubcloud.foo/a", s1)>>]
  /\ \E n \in 0..MAX_CRON_RETRIES :
       items = [i \in ItemIds |->
                  IF i = "m1" THEN Item("processing", n, "fresh")
                  ELSE Item("completed", 0, "none")]
  /\ cron = [c \in CronIds |-> NoCron]
  /\ pilot = NoPilot
  /\ heartbeat = "idle"

outsideRecovery ==
  <<now, cache, lk, pl, hist, faults, view, runs, proc, cron, pilot, heartbeat,
    ui, post, net, chan, strm, clk, lks, sent>>

NextRecovery ==
  \/ RecoverBegin /\ UNCHANGED outsideRecovery
  \/ ResetBegin /\ UNCHANGED outsideRecovery
  \/ RecWrite /\ UNCHANGED outsideRecovery
  \/ (\E l \in LinkIds : LateSave(l)) /\ UNCHANGED outsideRecovery
  \/ PassTenMinutes /\ UNCHANGED outsideTask
  \/ (\E i \in ItemIds : LockGoesStale(i))
       /\ UNCHANGED outsideQueue

SpecRecovery == InitRecovery /\ [][NextRecovery]_vars

(***************************************************************************)
(* C14: stuck-work recovery is idempotent.  What a pass leaves behind     *)
(* (Task status, every link, QueueItem status and retryCount) is a state   *)
(* a second pass of the same kind, run right after it, changes nothing     *)
(* of: the queue collections once the pass has been over them, the Task    *)
(* once the pass has written it.                                           *)
(***************************************************************************)
C14_RecoveryIdempotent ==
  [][/\ RecoverBegin => ItemsAfter("recover", items') = items'
     /\ ((ResetBegin /\ rec'.pc = "ran") \/ (RecWrite /\ rec.kind = "reset"))
          => ItemsAfter("reset", items') = items'
     /\ ((RecoverBegin \/ ResetBegin \/ RecWrite) /\ rec'.pc = "ran")
          => TaskAfter(rec'.kind, task', age') = task']_vars

\* A pass has reset a link of the stale task and requeued the stale item.
C14_Witness ==
  /\ rec.pc = "ran" /\ rec.kind = "recover" /\ rec.links # <<>>
  /\ age = "stale"
  /\ task.status = "failed"
  /\ \E i \in DOMAIN task.links :
       rec.links[i].status = "pending" /\ task.links[i].status = "error"
  /\ items["m1"].status = "pending" /\ items["m1"].retryCount = 2

Terminal == {"done", "success", "error", "failed"}

ViewUrl(l) == IF l = 0 THEN "gadgetsweb.xyz/g" ELSE "hubcloud.foo/a"

\* fbStatus === 'pending' || fbStatus === 'processing' || fbStatus === ''
IsFbPending(fbLink) == fbLink.status \in {"pending", "processing", ""}

\* endedAt && now - endedAt < 15000
IsRecentlyEnded(u) == u.stream = "ended" /\ u.grace

\* A merge that lets the shield count only during the grace period.
ShieldInGraceOnly(protected, isFbPending, isRecentlyEnded) ==
  protected /\ isRecentlyEnded

\* if (protectedLink) { ... if (isFbPending || isRecentlyEnded)
ShieldApplies(protected, isFbPending, isRecentlyEnded) ==
  protected /\ (isFbPending \/ isRecentlyEnded)

\* protectedLink.finalLink || fbLink.finalLink
OrElse(a, b) == IF a # Null /\ a # "" THEN a ELSE b

\* fetchTasks: mergedLinks of one server task.
MergedLinks(u, fbLinks) ==
  [i \in DOMAIN fbLinks |->
     LET protectedLink == u.shield[i - 1] IN
       IF ShieldApplies(protectedLink.status # "", IsFbPending(fbLinks[i]),
                        IsRecentlyEnded(u))
         THEN [fbLinks[i] EXCEPT
                 !.status = protectedLink.status,
                 !.finalLink = OrElse(protectedLink.finalLink, @)]
         ELSE fbLinks[i]]

\* fetchTasks: newTaskStatus.
MergedStatus(u, serverStatus, mergedLinks) ==
  IF AllTerminal(mergedLinks)
    THEN IF AnySuccess(mergedLinks) THEN "completed" ELSE "failed"
  ELSE IF IsRecentlyEnded(u) THEN "processing"
  ELSE serverStatus

\* getEffectiveLinkData(task, linkIdx, link).status: live stream, then
\* shield, then the tasks state.
Shown(u, l) ==
  IF u.stream = "active" /\ u.live[l] # "" THEN u.live[l]
  ELSE IF u.shield[l].status # "" THEN u.shield[l].status
  ELSE IF u.tasks = <<>> THEN ""
  ELSE IF u.tasks[l + 1].status = "" THEN "processing"
  ELSE u.tasks[l + 1].status

\* fetch('/api/tasks'): the server answers with the task as it is now.
FetchTasksSend ==
  /\ Cardinality(ui.polls) < MaxPolls
  /\ ui' = [ui EXCEPT !.polls = @ \cup {[status |-> task.status,
                                        links |-> task.links]}]
  /\ UNCHANGED task

\* The response arrives: setTasks((prevTasks) => data.map(...)).
FetchTasksDeliver(p) ==
  /\ p \in ui.polls
  /\ IF ui.stream = "active" /\ ui.tasks # <<>>
       THEN ui' = [ui EXCEPT !.polls = @ \ {p}]
       ELSE LET mergedLinks == MergedLinks(ui, p.links) IN
              ui' = [ui EXCEPT !.polls = @ \ {p},
                               !.tasks = mergedLinks,
                               !.status = MergedStatus(ui, p.status, mergedLinks)]
  /\ UNCHANGED task

\* startLiveStream after startProcess has set the task's shield to {}:
\* every link is sent to stream_solve, the shield holding none as done.
StartLiveStream ==
  /\ ui.stream = "idle" /\ ui.tasks # <<>>
  /\ ui' = [ui EXCEPT
       !.stream = "active",
       !.todo = LinkIds,
       !.live = [l \in LinkIds |->
                   IF ui.tasks[l + 1].status \in {"done", "success"}
                     THEN "done" ELSE "processing"]]
  /\ UNCHANGED task

\* stream_solve saves the result of a link and sends its status line; the
\* dashboard records it in the live state and in the shield.
StreamResult(l) ==
  /\ ui.stream = "active" /\ l \in ui.todo
  /\ \E r \in {Result("done", "f1"), Result("error", Null)} :
       /\ task' = saveResultToFirestore(task, l, ViewUrl(l), r)
       /\ ui' = [ui EXCEPT !.todo = @ \ {l},
                           !.live[l] = r.status,
                           !.shield[l] = [status |-> r.status,
                                          finalLink |-> r.finalLink]]

\* The 'finished' line of a link that reported neither done nor error.
StreamFinished(l) ==
  /\ ui.stream = "active" /\ l \in ui.todo
  /\ ui.live[l] \notin {"done", "error"}
  /\ ui' = [ui EXCEPT !.todo = @ \ {l},
                      !.live[l] = "error",
                      !.shield[l] = [status |-> "error", finalLink |-> Null]]
  /\ UNCHANGED task

\* finally: the stream is over (or broke), the grace period starts.
StreamEnds ==
  /\ ui.stream = "active"
  /\ ui' = [ui EXCEPT !.stream = "ended", !.grace = TRUE, !.todo = {}]
  /\ UNCHANGED task

\* 15 s have gone by since streamEndedAt.
GraceElapses ==
  /\ ui.stream = "ended" /\ ui.grace
  /\ ui' = [ui EXCEPT !.grace = FALSE]
  /\ UNCHANGED task

\* Another writer of the task saves a link: a solve_task or scheduled run,
\* a deferred save, a duplicate submission's reset.
ServerSaves(l) ==
  /\ \E r \in {Result("pending", Null), Result("done", "f1"),
               Result("error", Null)} :
       /\ r.status # task.links[l + 1].status
       /\ task' = saveResultToFirestore(task, l, ViewUrl(l), r)
  /\ UNCHANGED ui

InitView ==
  /\ now = 1
  /\ cache = [k \in CacheKeys |-> NoDoc]
  /\ lk = NoLookup /\ pl = NoCall /\ hist = NoHist
  /\ faults = FALSE
  /\ task = [exists |-> TRUE, status |-> "pending",
             links |-> <<Link(0, ViewUrl(0), "pending", Null),
                         Link(1, ViewUrl(1), "pending", Null)>>]
  /\ NoRuns

outsideView ==
  <<now, cache, lk, pl, hist, faults, runVars, queueVars, post, net, chan, strm, clk, lks, sent>>

NextView ==
  \/ FetchTasksSend /\ UNCHANGED outsideView
  \/ (\E p \in ui.polls : FetchTasksDeliver(p)) /\ UNCHANGED outsideView
  \/ StartLiveStream /\ UNCHANGED outsideView
  \/ (\E l \in LinkIds : StreamResult(l)) /\ UNCHANGED outsideView
  \/ (\E l \in LinkIds : StreamFinished(l)) /\ UNCHANGED outsideView
  \/ StreamEnds /\ UNCHANGED outsideView
  \/ GraceElapses /\ UNCHANGED outsideView
  \/ (\E l \in LinkIds : ServerSaves(l)) /\ UNCHANGED outsideView

SpecView == InitView /\ [][NextView]_vars

Recorded(u, l) == u.shield[l].status \in {"done", "error"}

(***************************************************************************)
(* C16: once the shield holds a stream-observed 'done' or 'error' for a    *)
(* link, no later step takes it out of the shield, and no /api/tasks       *)
(* response carrying 'pending' or 'processing' for the link replaces it:   *)
(* when the response is merged the tasks state gets the shield's status    *)
(* for the link, and the task card keeps showing a terminal status,        *)
(* whenever the response was issued and in whatever order responses and    *)
(* stream lines arrive.                                                    *)
(***************************************************************************)
C16_PollNeverReplacesTerminal ==
  [][\A l \in LinkIds :
       Recorded(ui, l)
         => /\ ui'.shield[l] = ui.shield[l]
            /\ Shown(ui', l) = ui.shield[l].status
            /\ \A p \in ui.polls :
                 (FetchTasksDeliver(p) /\ IsFbPending(p.links[l + 1]))
                   => \/ ui'.tasks = ui.tasks
                      \/ ui'.tasks[l + 1].status = ui.shield[l].status]_vars

\* A response issued while the link was pending arrived after the stream
\* had reported the link done and had ended, the grace period over: the
\* tasks state and the card both have 'done'.
C16_Witness ==
  /\ ui.stream = "ended" /\ ~ui.grace
  /\ ui.shield[0].status = "done"
  /\ task.links[1].status = "pending"
  /\ ui.tasks # <<>> /\ ui.tasks[1].status = "done"
  /\ ui.polls = {}
  /\ Shown(ui, 0) = "done"

(***************************************************************************)
(* C17: after the stream of the Task has ended, the shield's status of a   *)
(* link is what is shown, whatever an arriving /api/tasks response says,   *)
(* for the 15 s of the grace period; once the 15 s are over, a terminal    *)
(* status in the response is what is shown.                                *)
(***************************************************************************)
C17_ShieldWinsOnlyInGrace ==
  [][\A l \in LinkIds, p \in ui.polls :
       (FetchTasksDeliver(p) /\ ui.stream = "ended" /\ Recorded(ui, l))
         => IF ui.grace
              THEN Shown(ui', l) = ui.shield[l].status
              ELSE p.links[l + 1].status \in Terminal
                     => Shown(ui', l) = p.links[l + 1].status]_vars

(***************************************************************************)
(* api/tasks/route.ts POST and the dashboard's startProcess: the           *)
(* submissions of one url, the Task document of that url, and the runs     *)
(* that resolve its links.                                                 *)
(***************************************************************************)
\* What extractMovieLinks finds on the page, in page order, at different
\* times; <<>> is a failed or empty extraction.
Pages ==
  {<<>>,
   <<"gadgetsweb.xyz/g", "hubcloud.foo/a">>,
   <<"gadgetsweb.xyz/g", "hubcloud.foo/a", "gdflix.x/b">>,
   <<"gadgetsweb.xyz/g", "hubcloud.foo/a", "filepress.top/p", "gdflix.x/b">>}

\* Step 5: listResult.links.map((l, i) => ({ ...l, id: i, status: 'pending' }))
CreatedLinks(page) ==
  [i \in DOMAIN page |-> Link(i - 1, page[i], "pending", Null)]

\* ['error', 'failed'].includes(l.status) ? { ...l, status: 'pending' } : l
UpdatedExisting(existingLinks) ==
  [i \in DOMAIN existingLinks |->
     IF existingLinks[i].status \in {"error", "failed"}
       THEN [existingLinks[i] EXCEPT !.status = "pending"]
       ELSE existingLinks[i]]

\* listResult.links.filter((l) => !existingUrls.has(l.link))
TrulyNewLinks(existingLinks, page) ==
  SelectSeq(page, LAMBDA u :
    \A i \in DOMAIN existingLinks : existingLinks[i].link # u)

\* existingIds.length > 0 ? Math.max(...existingIds) : -1
MaxExistingId(existingLinks) ==
  IF existingLinks = <<>> THEN -1
  ELSE CHOOSE m \in IdsOf(existingLinks) : \A n \in IdsOf(existingLinks) : n <= m

\* id: maxExistingId + 1 + i
NewLinkId(maxExistingId, i) == maxExistingId + 1 + i

\* mergedLinks = [...updatedExisting, ...newLinksWithIds]
MergeLinks(existingLinks, page) ==
  LET trulyNewLinks == TrulyNewLinks(existingLinks, page)
      maxExistingId == MaxExistingId(existingLinks)
      newLinksWithIds ==
        [k \in DOMAIN trulyNewLinks |->
           Link(NewLinkId(maxExistingId, k - 1), trulyNewLinks[k], "pending",
                Null)]
  IN UpdatedExisting(existingLinks) \o newLinksWithIds

\* getTrueTaskStatus of a task the page holds, no stream of the page on it.
getTrueTaskStatus(t) ==
  IF AllTerminal(t.links)
    THEN IF AnySuccess(t.links) THEN "completed" ELSE "failed"
    ELSE t.status

\* startProcess up to the POST: the duplicate check looks in the page's
\* tasks state, which holds the Task as it is now or does not hold it (not
\* fetched yet, or not among the 20 newest tasks).
StartProcess(p) ==
  /\ post.req[p].pc = "idle"
  /\ \E held \in BOOLEAN :
       LET dupStatus ==
             IF held /\ task.exists THEN getTrueTaskStatus(task) ELSE "" IN
         IF dupStatus \in {"completed", "processing"}
           THEN post' = [post EXCEPT !.req[p].pc = "done",
                                     !.req[p].answer = dupStatus]
           ELSE post' = [post EXCEPT !.req[p].pc = "posted"]
  /\ UNCHANGED task

\* POST step 2: .where('url', '==', trimmedUrl).limit(5).get()
PostRead(p) ==
  /\ post.req[p].pc = "posted"
  /\ post' = [post EXCEPT !.req[p].pc = "read", !.req[p].dup = task]
  /\ UNCHANGED task

\* POST steps 3 to 5: the extraction returns, then the one write of the
\* request: the merge onto the document read in step 2, or a new document.
PostWrite(p) ==
  /\ post.req[p].pc = "read"
  /\ \E page \in Pages :
       LET existingTaskData == post.req[p].dup IN
         IF existingTaskData.exists
           THEN IF page # <<>>
                  THEN /\ task' = [task EXCEPT
                            !.status = "pending",
                            !.links = MergeLinks(existingTaskData.links, page)]
                       /\ post' = [post EXCEPT !.req[p].pc = "answered",
                                               !.req[p].answer = "merged"]
                  ELSE /\ post' = [post EXCEPT !.req[p].pc = "answered",
                                               !.req[p].answer = "existing"]
                       /\ UNCHANGED task
           ELSE IF task.exists
                  THEN /\ post' = [post EXCEPT !.req[p].pc = "answered",
                                               !.req[p].answer = "created",
                                               !.twins = @ + 1]
                       /\ UNCHANGED task
                  ELSE /\ task' = [exists |-> TRUE,
                                   status |-> IF page # <<>> THEN "pending"
                                              ELSE "failed",
                                   links |-> CreatedLinks(page)]
                       /\ post' = [post EXCEPT !.req[p].pc = "answered",
                                               !.req[p].answer = "created"]

\* startProcess after the POST: the task's shield is set to {} and
\* startLiveStream sends every link of the task to stream_solve.
Dispatch(p) ==
  /\ post.req[p].pc = "answered"
  /\ post' = [post EXCEPT !.req[p].pc = "done", !.streams = @ + 1]
  /\ UNCHANGED task

\* A run on the task marks it 'processing'.
SolveMarks ==
  /\ task.exists /\ task.status = "pending"
  /\ \E i \in DOMAIN task.links : IsPendingLink(task.links[i])
  /\ task' = [task EXCEPT !.status = "processing"]
  /\ UNCHANGED post

\* A run on the task (the stream a submission dispatched, a solve_task or
\* a scheduled run) saves the result of the link at array position i.
SolveSaves(i) ==
  /\ task.exists
  /\ i \in DOMAIN task.links /\ IsPendingLink(task.links[i])
  /\ \E r \in {Result("done", "f1"), Result("error", Null)} :
       task' = saveResultToFirestore(task, task.links[i].id,
                                     task.links[i].link, r)
  /\ UNCHANGED post

\* No submission of the url is in progress; the Task of the url does not
\* exist yet or was created by an earlier submission.
InitIntake ==
  /\ now = 1
  /\ cache = [k \in CacheKeys |-> NoDoc]
  /\ lk = NoLookup /\ pl = NoCall /\ hist = NoHist
  /\ faults = FALSE
  /\ \E page \in {<<>>, <<"gadgetsweb.xyz/g", "hubcloud.foo/a">>} :
       task = IF page = <<>> THEN NoTask
              ELSE [exists |-> TRUE, status |-> "pending",
                    links |-> CreatedLinks(page)]
  /\ NoRuns

outsideIntake ==
  <<now, cache, lk, pl, hist, faults, runVars, queueVars, ui, net, chan, strm, clk, lks, sent>>

NextIntake ==
  \/ (\E p \in PostIds : StartProcess(p)) /\ UNCHANGED outsideIntake
  \/ (\E p \in PostIds : PostRead(p)) /\ UNCHANGED outsideIntake
  \/ (\E p \in PostIds : PostWrite(p)) /\ UNCHANGED outsideIntake
  \/ (\E p \in PostIds : Dispatch(p)) /\ UNCHANGED outsideIntake
  \/ SolveMarks /\ UNCHANGED outsideIntake
  \/ (\E i \in DOMAIN task.links : SolveSaves(i)) /\ UNCHANGED outsideIntake

SpecIntake == InitIntake /\ [][NextIntake]_vars


(***************************************************************************)
(* C18: a submission that reaches its write while the Task of the url is   *)
(* 'completed' answers with the existing Task and leaves it unchanged; one *)
(* that reaches it while the Task is 'processing' is answered 'still       *)
(* processing', leaves the Task unchanged, and is not followed by a        *)
(* dispatch of the Task.                                                   *)
(***************************************************************************)
C18_DuplicateLeavesTaskAlone ==
  [][\A p \in PostIds :
       /\ (post.req[p].pc = "read" /\ post'.req[p].pc = "answered"
              /\ task.exists /\ task.status = "completed")
            => (task' = task /\ post'.req[p].answer = "existing")
       /\ (post.req[p].pc = "read" /\ post'.req[p].pc = "answered"
              /\ task.exists /\ task.status = "processing")
            => (task' = task /\ post'.req[p].answer = "processing")
       /\ (post.req[p].pc = "answered" /\ post.req[p].dup.exists
              /\ post.req[p].dup.status = "processing")
            => post'.streams = post.streams]_vars

(***************************************************************************)
(* C19: across every step, a link of the Task that is still in the Task    *)
(* afterwards has the id it had before, and the ids of the Task's links    *)
(* are pairwise distinct.                                                  *)
(***************************************************************************)
C19_LinkIdsStableAndUnique ==
  [][/\ \A i \in DOMAIN task.links, j \in DOMAIN task'.links :
          task.links[i].link = task'.links[j].link
            => task.links[i].id = task'.links[j].id
     /\ \A i, j \in DOMAIN task'.links :
          task'.links[i].id = task'.links[j].id => i = j]_vars

C21_MergeKeepsCommittedResults ==
  [][\A p \in PostIds :
       (post.req[p].pc = "read" /\ post'.req[p].pc = "answered")
         => \A i \in DOMAIN task.links :
              task.links[i].status \in {"done", "success"}
                => /\ i \in DOMAIN task'.links
                   /\ task'.links[i] = task.links[i]]_vars

(***************************************************************************)
(* C22: a result saved for a link by a link processor of the solve_task    *)
(* run or of the stream is committed on the array the Task holds at that   *)
(* moment: the entry of the link gets the status and finalLink of that     *)
(* processor's result, and the entries of the other links, whoever wrote   *)
(* them and however the two runs interleave, stay as they are.             *)
(***************************************************************************)
C22_SavesOfDistinctLinksAllKept ==
  [][\A r \in Runs, l \in LinkIds :
       (ProcSave(r, l) \/ ProcCacheHitSave(r, l))
         => /\ task'.links[l + 1].status = proc[r][l].ret.status
            /\ task'.links[l + 1].finalLink =
                 Coalesce(proc[r][l].ret.finalLink, task.links[l + 1].finalLink)
            /\ \A m \in LinkIds \ {l} :
                 m + 1 \in DOMAIN task.links
                   => task'.links[m + 1] = task.links[m + 1]]_vars

\* Both runs are at work on the task; the solve_task run has saved link 0
\* and the stream link 1, each still busy with the other link: the array
\* holds both results.
C22_Witness ==
  /\ Alive("batch") /\ runs["stream"].pc = "running"
  /\ proc["batch"][0].pc = "finished" /\ proc["stream"][1].pc = "finished"
  /\ proc["batch"][1].pc \in {"queued", "start", "chain"}
  /\ proc["stream"][0].pc \in {"queued", "start", "chain"}
  /\ proc["batch"][0].ret.status = "error"
  /\ proc["stream"][1].ret.status = "done"
  /\ task.links[1].status = "error"
  /\ task.links[2].status = "done" /\ task.links[2].finalLink = "f1"

(***************************************************************************)
(* lib/solvers.ts: one page fetch.  extractMovieLinks fetches through      *)
(* axiosWithRetry; the hop solvers call axios.get themselves inside their  *)
(* try/catch.  The server's answers, request by request, are the script:   *)
(* an HTTP status, 0 for no response (timeout, connection refused).        *)
(***************************************************************************)
Statuses == {200, 522, 502, 503, 504, 404, 0}
Scripts == [1..(HTTP_522_MAX_RETRIES + 1) -> Statuses]
HopSolvers == {"solveHBLinks", "solveHubDrive", "solveHubCDN"}

\* A wrapper that retries whatever the error was.
RetriesAnyError(status, attempt, maxRetries) == attempt < maxRetries

\* [522, 502, 503, 504].includes(status) && attempt < maxRetries
ShouldRetryFetch(status, attempt, maxRetries) ==
  status \in {522, 502, 503, 504} /\ attempt < maxRetries

\* const wait = 2000 * (attempt + 1), in seconds
Backoff(attempt) == BackoffStepSeconds * (attempt + 1)

\* axiosWithRetry: the axios.get of one pass of the loop and its catch.
AxiosWithRetryGet ==
  /\ net.fn = "extractMovieLinks" /\ net.pc = "request"
  /\ LET status == net.script[net.requests + 1] IN
       net' = [net EXCEPT
         !.requests = @ + 1,
         !.pc = IF status = 200 THEN "returned"
                ELSE IF ShouldRetryFetch(status, net.attempt,
                                         HTTP_522_MAX_RETRIES)
                  THEN "waiting" ELSE "threw",
         !.out = IF status = 200 THEN "response" ELSE ""]

\* await new Promise(r => setTimeout(r, wait)); continue;
AxiosWithRetryWait ==
  /\ net.pc = "waiting"
  /\ net' = [net EXCEPT !.waits = Append(@, Backoff(net.attempt)),
                        !.attempt = @ + 1,
                        !.pc = "request"]

\* A hop solver: axios.get inside try { } catch (e) { return { status:
\* 'error' } }; solveHubCDN fetches a second page after the first.
HopGet ==
  /\ net.fn \in HopSolvers /\ net.pc = "request"
  /\ LET status == net.script[net.requests + 1] IN
       IF status # 200
         THEN net' = [net EXCEPT !.requests = @ + 1, !.pc = "returned",
                                 !.out = "error"]
         ELSE IF net.fn = "solveHubCDN" /\ net.requests = 0
           THEN net' = [net EXCEPT !.requests = @ + 1]
           ELSE \E found \in {"success", "fail"} :
                  net' = [net EXCEPT !.requests = @ + 1, !.pc = "returned",
                                     !.out = found]

\* The call has been made and no request sent yet.
InitFetch ==
  /\ now = 1
  /\ cache = [k \in CacheKeys |-> NoDoc]
  /\ lk = NoLookup /\ pl = NoCall /\ hist = NoHist
  /\ faults = FALSE
  /\ task = NoTask
  /\ NoQueue
  /\ view = <<>>
  /\ runs = [r \in Runs |-> NoRun]
  /\ proc = [r \in Runs |-> [l \in LinkIds |-> NoProc]]
  /\ age = "fresh" /\ rec = NoPass
  /\ ui = NoUi /\ post = NoPosts /\ chan = <<>>
  /\ strm = NoStream
  /\ clk = NoClock /\ lks = NoLookups /\ sent = NoLinksSent
  /\ \E fn \in HopSolvers \cup {"extractMovieLinks"}, script \in Scripts :
       net = [NoFetch EXCEPT !.fn = fn, !.script = script, !.pc = "request"]

outsideFetch ==
  <<now, cache, lk, pl, hist, faults, task, runVars, queueVars, ui, post, chan, strm, clk, lks, sent>>

NextFetch ==
  \/ AxiosWithRetryGet /\ UNCHANGED outsideFetch
  \/ AxiosWithRetryWait /\ UNCHANGED outsideFetch
  \/ HopGet /\ UNCHANGED outsideFetch

SpecFetch == InitFetch /\ [][NextFetch]_vars


ViaWrapper == net.fn = "extractMovieLinks"

(***************************************************************************)
(* C23: axiosWithRetry sends at most 1 + 2 requests; it goes on to another *)
(* request only after a 522, 502, 503 or 504, having waited 2 s before the *)
(* second request and 4 s before the third; any other error ends the call  *)
(* at once; a server answering 522, 522, 200 is fetched successfully with  *)
(* 3 requests and the 2 waits.                                             *)
(***************************************************************************)
C23_RetryOnTransientOnly ==
  ViaWrapper =>
    /\ net.requests <= HTTP_522_MAX_RETRIES + 1
    /\ net.waits = SubSeq(<<2, 4>>, 1, Len(net.waits))
    /\ \A k \in 1..net.requests :
         (k < net.requests \/ net.pc = "waiting")
           => net.script[k] \in {522, 502, 503, 504}
    /\ net.pc \in {"returned", "threw"}
         => /\ Len(net.waits) = net.requests - 1
            /\ net.pc = "returned" <=> net.script[net.requests] = 200
    /\ (net.pc \in {"returned", "threw"} /\ net.script = <<522, 522, 200>>)
         => /\ net.pc = "returned" /\ net.out = "response"
            /\ net.requests = 3 /\ net.waits = <<2, 4>>

\* The server answered 522 twice and then 200: the call has returned the
\* response.
C23_Witness ==
  /\ ViaWrapper /\ net.pc = "returned"
  /\ net.script = <<522, 522, 200>>
  /\ net.requests = 3 /\ net.waits = <<2, 4>>

(***************************************************************************)
(* C24: a hop solver whose page fetch is answered once with 522, 502, 503  *)
(* or 504, the repeat of the request being answered 200, does not return   *)
(* a failed hop: the fetch is repeated.                                    *)
(***************************************************************************)
C24_HopFetchRetried ==
  (/\ net.fn \in HopSolvers /\ net.pc = "returned"
   /\ net.script[1] \in {522, 502, 503, 504}
   /\ net.script[2] = 200 /\ net.script[3] = 200)
    => net.out # "error"

(***************************************************************************)
(* The resolver chain of one link in both Link Processors: solveWork of    *)
(* solve_task ("batch") and solving of stream_solve ("stream"), from the   *)
(* start of the chain to the save of its result.  currentLink and the      *)
(* urls the bypass calls of the loop were made on are followed.            *)
(***************************************************************************)
ChainEnter(variant, url, attempt) ==
  [variant |-> variant, url |-> url, attempt |-> attempt, pc |-> "solve",
   cur |-> url, bypass |-> <<>>, chain |-> Settled(Result("", Null)),
   ret |-> Result("", Null)]

Hop(cur, next) == [cur |-> cur, next |-> next]

\* What the awaited call c of the chain can lead to: the new currentLink
\* and the next await or the chain's result.
CallOutcomes(variant, c) ==
  LET failed == Hop(c.cur, Settled(Result("error", Null)))
      solved == {Hop(c.cur, Settled(Result("done", f))) : f \in FinalLinks}
      broke == Hop(c.cur, Advance(variant, "4c", c.cur, c.loopCount))
      hopped == {Hop(u, Advance(variant, "4b", u, c.loopCount + 1)) :
                   u \in HopAnswers}
  IN CASE c.call = "solveHubCDN" -> solved \cup {failed}
       [] c.call = "solveGadgetsWebNative" -> hopped \cup {broke}
       [] c.call = "timerBypass" -> hopped \cup {broke, failed}
       [] c.call = "solveHBLinks" ->
            {Hop(u, Advance(variant, "4d", u, c.loopCount)) :
               u \in HBLinksAnswers} \cup {failed}
       [] c.call = "solveHubDrive" ->
            {Hop(u, Advance(variant, "4e", u, c.loopCount)) :
               u \in HopAnswers} \cup {failed}
       [] OTHER -> solved \cup {failed}

\* The chain is at its next await, or the race is settled: solve_task
\* retries a failed first attempt, stream_solve never retries.
ChainGo(h) ==
  IF h.next.kind = "call"
    THEN pl' = [pl EXCEPT
           !.pc = "call", !.cur = h.cur, !.chain = h.next,
           !.bypass = IF h.next.call \in {"solveGadgetsWebNative", "timerBypass"}
                        THEN Append(@, h.cur) ELSE @]
    ELSE IF pl.variant = "batch" /\ ShouldRetry(h.next.result, pl.attempt)
      THEN pl' = ChainEnter(pl.variant, pl.url, 2)
      ELSE pl' = [pl EXCEPT !.pc = "save", !.cur = h.cur,
                            !.chain = h.next, !.ret = h.next.result]

\* solveWork() / solving() runs to its first await.
ChainBegins ==
  /\ pl.pc = "solve"
  /\ ChainGo(Hop(pl.url, Advance(pl.variant, "4a", pl.url, 0)))
  /\ UNCHANGED task

\* The awaited solver call returns or throws.
ChainCallReturns ==
  /\ pl.pc = "call"
  /\ \E h \in CallOutcomes(pl.variant, pl.chain) : ChainGo(h)
  /\ UNCHANGED task

\* The LINK_TIMEOUT_MS timer wins the race.
ChainTimesOut ==
  /\ pl.pc = "call"
  /\ ChainGo(Hop(pl.cur, Settled(Result("error", Null))))
  /\ UNCHANGED task

\* saveResultToFirestore / saveToFirestore of the result.
ChainSave ==
  /\ pl.pc = "save"
  /\ task' = IF pl.variant = "batch"
               THEN saveResultToFirestore(task, 0, pl.url, pl.ret)
               ELSE saveToFirestore(task, 0, pl.url, pl.ret)
  /\ pl' = [pl EXCEPT !.pc = "saved"]

\* One Link Processor, of either kind, is about to run the chain of link 0
\* of a task; the cache had nothing for the link.
InitChain ==
  /\ now = 1
  /\ cache = [k \in LinkKeys |-> NoDoc]
  /\ lk = NoLookup /\ hist = NoHist
  /\ faults = FALSE
  /\ \E variant \in Runs, u \in LinkUrls :
       /\ task = [exists |-> TRUE, status |-> "processing",
                  links |-> <<Link(0, u, "pending", Null),
                              Link(1, "drivehub.x/other", "done", "f0")>>]
       /\ pl = ChainEnter(variant, u, 1)
  /\ NoRuns

outsideChain ==
  <<now, cache, lk, hist, faults, runVars, queueVars, ui, post, net, chan, strm, clk, lks, sent>>

NextChain ==
  \/ ChainBegins /\ UNCHANGED outsideChain
  \/ ChainCallReturns /\ UNCHANGED outsideChain
  \/ ChainTimesOut /\ UNCHANGED outsideChain
  \/ ChainSave /\ UNCHANGED outsideChain

SpecChain == InitChain /\ [][NextChain]_vars

\* currentLink is of none of the host families the chain has a solver for.
NoFamily(u) ==
  ~(\E d \in {"hubcdn.fans", "hblinks", "hubdrive", "hubcloud", "hubcdn",
              "gdflix", "drivehub"} : Includes(u, d))

(***************************************************************************)
(* C25: when the chain of a link has ended on a url of none of the known   *)
(* host families, in solve_task as in stream_solve, the result is 'error'  *)
(* and the link is persisted as 'error', never as 'done'.                  *)
(***************************************************************************)
C25_UnmatchedUrlIsError ==
  (pl.pc = "saved" /\ NoFamily(pl.cur))
    => /\ pl.ret.status = "error"
       /\ task.links[1].status = "error"

(***************************************************************************)
(* C26: in one chain execution every call of the sequenced-bypass resolver *)
(* is made on a url of a timer host family, and there are at most 3 such   *)
(* calls.  (A failed hop leaves the loop with currentLink as it was: that  *)
(* is the `broke` outcome of CallOutcomes.)                                *)
(***************************************************************************)
C26_BypassOnlyOnTimerUrls ==
  /\ Len(pl.bypass) <= 3
  /\ \A k \in DOMAIN pl.bypass : IsTimerUrl(pl.bypass[k])

(***************************************************************************)
(* cron/process-queue GET with three queue items, two of movies_queue and  *)
(* one, created before them, of webseries_queue: the scheduled runs alone. *)
(* Every item has failed MAX_CRON_RETRIES times; the next failure is final *)
(***************************************************************************)
QueuedIds == {"m1", "m2", "w1"}
TriedBefore == MAX_CRON_RETRIES

InitPick ==
  /\ now = 1
  /\ cache = [k \in CacheKeys |-> NoDoc]
  /\ lk = NoLookup /\ pl = NoCall /\ hist = NoHist
  /\ task = NoTask
  /\ faults = FALSE
  /\ NoTaskRuns
  /\ \E pending \in SUBSET QueuedIds :
       items = [i \in QueuedIds |->
                  IF i \in pending THEN Item("pending", TriedBefore, "none")
                  ELSE Item("completed", TriedBefore, "none")]
  /\ cron = [c \in CronIds |-> NoCron]
  /\ pilot = NoPilot
  /\ heartbeat = "idle"

NextPick ==
  \/ (\E c \in CronIds : CronStart(c)) /\ UNCHANGED outsideQueue
  \/ (\E c \in CronIds : CronRecover(c)) /\ UNCHANGED outsideQueue
  \/ (\E c \in CronIds : CronPick(c)) /\ UNCHANGED outsideQueue
  \/ (\E c \in CronIds : CronLock(c)) /\ UNCHANGED outsideQueue
  \/ (\E c \in CronIds : CronExtractFails(c)) /\ UNCHANGED outsideQueue
  \/ (\E c \in CronIds : CronCreateTask(c)) /\ UNCHANGED outsideQueue
  \/ (\E c \in CronIds, k \in 1..2 : CronSolveLink(c, k))
       /\ UNCHANGED outsideQueue
  \/ (\E c \in CronIds : CronDefer(c)) /\ UNCHANGED outsideQueue
  \/ (\E c \in CronIds : CronFinal(c)) /\ UNCHANGED outsideQueue
  \/ (\E c \in CronIds : CronWrapUp(c)) /\ UNCHANGED outsideQueue
  \/ (\E c \in CronIds : CronThrows(c)) /\ UNCHANGED outsideQueue
  \/ (\E c \in CronIds : CronKill(c)) /\ UNCHANGED outsideQueue
  \/ (\E i \in QueuedIds : LockGoesStale(i)) /\ UNCHANGED outsideQueue

SpecPick == InitPick /\ [][NextPick]_vars

Picks(c) == cron[c].pc = "pick" /\ cron'[c].pc = "lock"
Locks(c) == cron[c].pc = "lock" /\ cron'[c].pc = "extract"

(***************************************************************************)
(* C27, as the code has it: the item an invocation takes is, at its query, *)
(* the earliest-created pending item of movies_queue, or, when movies_queue *)
(* has none pending, the earliest-created pending item of webseries_queue; *)
(* an item is put into 'processing' only by the lock step of an invocation, *)
(* one item per invocation; when the query finds nothing pending the       *)
(* invocation ends there, heartbeat 'idle', no item changed, no Task made. *)
(***************************************************************************)
C27_PicksEarliestMoviesFirst ==
  [][/\ \A c \in CronIds :
          Picks(c) =>
            LET it == cron'[c].item
                col == IF PendingIn("movies_queue") # {} THEN "movies_queue"
                       ELSE "webseries_queue"
            IN /\ it \in PendingIn(col)
               /\ \A j \in PendingIn(col) : CreatedAt(it) <= CreatedAt(j)
               /\ items' = items
     /\ \A i \in QueuedIds :
          (items[i].status # "processing" /\ items'[i].status = "processing")
            => \E c \in CronIds :
                 /\ Locks(c) /\ cron[c].item = i
                 /\ \A j \in QueuedIds \ {i} : items'[j] = items[j]
     /\ \A c \in CronIds :
          (CronPick(c) /\ \A i \in QueuedIds : items[i].status # "pending")
            => /\ cron'[c] = NoCron
               /\ items' = items
               /\ heartbeat' = "idle"]_vars

\* An invocation has taken m1 while m2, created after it, and w1, created
\* before both, are pending.
C27_Witness ==
  /\ \E c \in CronIds : cron[c].pc = "lock" /\ cron[c].item = "m1"
  /\ items["m1"].status = "pending"
  /\ items["m2"].status = "pending"
  /\ items["w1"].status = "pending"

\* C27 as stated: the item taken is the earliest-created of all the items
\* pending in the two queues together.
C27_Original ==
  [][\A c \in CronIds :
       Picks(c) =>
         \A j \in QueuedIds :
           items[j].status = "pending"
             => CreatedAt(cron'[c].item) <= CreatedAt(j)]_vars

(***************************************************************************)
(* POST /api/stream_solve for the two links of one task, line by line on   *)
(* the live channel, and DELETE /api/tasks for that task.  Link 0 is a     *)
(* timer link and link 1 a direct link: both processLink calls start when  *)
(* the stream opens.                                                       *)
(***************************************************************************)
MaxLogs == 1

StreamKeys == {hashUrl(ViewUrl(l)) : l \in LinkIds}

\* send({ id: lid, ... }): one NDJSON line.
Line(lid, kind) == [id |-> lid, kind |-> kind]
send(lid, kind) == chan' = Append(chan, Line(lid, kind))

\* The request arrives: start(controller) calls processLink for the direct
\* link and for the first timer link.
StreamOpen ==
  /\ strm.pc = "idle" /\ task.exists
  /\ strm' = [pc |-> "open",
              call |-> [l \in LinkIds |-> [NoSend EXCEPT !.pc = "cache"]]]
  /\ UNCHANGED <<task, cache, chan>>

\* getCachedLink(originalUrl): on a hit the log line is sent.
StreamCacheCheck(l) ==
  /\ strm.pc = "open" /\ strm.call[l].pc = "cache"
  /\ LET cached == LookupNow(ViewUrl(l)) IN
       IF CacheUsable(cached)
         THEN /\ send(l, "msg")
              /\ strm' = [strm EXCEPT !.call[l].pc = "hit",
                            !.call[l].payload = Result("done", cached.finalLink)]
         ELSE /\ chan' = chan
              /\ strm' = [strm EXCEPT !.call[l].pc = "solving",
                                      !.call[l].solving = TRUE]
  /\ cache' = TouchedCache(ViewUrl(l))
  /\ UNCHANGED task

\* The transaction of the cache-hit branch, the 'done' line, return.
StreamHitSave(l) ==
  /\ strm.pc = "open" /\ strm.call[l].pc = "hit"
  /\ task' = streamCacheHitSave(task, l, strm.call[l].payload.finalLink)
  /\ send(l, "done")
  /\ strm' = [strm EXCEPT !.call[l].pc = "returned"]
  /\ UNCHANGED cache

\* log(...) inside solving(): it runs for as long as solving() does.
StreamLog(l) ==
  /\ strm.call[l].solving /\ strm.call[l].logs < MaxLogs
  /\ send(l, "msg")
  /\ strm' = [strm EXCEPT !.call[l].logs = @ + 1]
  /\ UNCHANGED <<task, cache>>

\* solving() settles first.
StreamSolved(l) ==
  /\ strm.pc = "open" /\ strm.call[l].pc = "solving"
  /\ \E r \in {Result("done", "f1"), Result("error", Null)} :
       strm' = [strm EXCEPT !.call[l].pc = "send",
                            !.call[l].payload = r,
                            !.call[l].solving = FALSE]
  /\ UNCHANGED <<task, cache, chan>>

\* The timeout settles the race; solving() is not cancelled.
StreamTimeout(l) ==
  /\ strm.pc = "open" /\ strm.call[l].pc = "solving"
  /\ strm' = [strm EXCEPT !.call[l].pc = "send",
                          !.call[l].payload = Result("error", Null)]
  /\ UNCHANGED <<task, cache, chan>>

\* The solving() left behind by a timeout returns; nothing awaits it.
StreamSolvingOver(l) ==
  /\ strm.call[l].pc # "solving" /\ strm.call[l].solving
  /\ strm' = [strm EXCEPT !.call[l].solving = FALSE]
  /\ UNCHANGED <<task, cache, chan>>

\* send({ id: lid, status: resultPayload.status, ... })
StreamSendStatus(l) ==
  /\ strm.pc = "open" /\ strm.call[l].pc = "send"
  /\ send(l, strm.call[l].payload.status)
  /\ strm' = [strm EXCEPT !.call[l].pc = "save"]
  /\ UNCHANGED <<task, cache>>

\* saveToFirestore, then setCachedLink for a resolved link.
StreamSave(l) ==
  /\ strm.pc = "open" /\ strm.call[l].pc = "save"
  /\ LET r == strm.call[l].payload IN
       /\ task' = saveToFirestore(task, l, ViewUrl(l), r)
       /\ cache' = IF r.status = "done" /\ r.finalLink # Null
                     THEN [cache EXCEPT ![hashUrl(ViewUrl(l))] =
                            [exists |-> TRUE, finalLink |-> r.finalLink,
                             expiresAt |-> now + CacheExpiryTicks,
                             hitCount |-> 0, status |-> "valid"]]
                     ELSE cache
  /\ strm' = [strm EXCEPT !.call[l].pc = "mark"]
  /\ UNCHANGED chan

\* send({ id: lid, status: 'finished' })
StreamMark(l) ==
  /\ strm.pc = "open" /\ strm.call[l].pc = "mark"
  /\ send(l, "finished")
  /\ strm' = [strm EXCEPT !.call[l].pc = "returned"]
  /\ UNCHANGED <<task, cache>>

\* await Promise.allSettled(...); controller.close()
StreamClose ==
  /\ strm.pc = "open"
  /\ \A l \in LinkIds : strm.call[l].pc = "returned"
  /\ strm' = [strm EXCEPT !.pc = "closed"]
  /\ UNCHANGED <<task, cache, chan>>

\* DELETE /api/tasks, sent by handleDeleteTask for any task of the list.
DeleteTask ==
  /\ task.exists
  /\ task' = NoTask
  /\ UNCHANGED <<cache, chan, strm>>

InitStream ==
  /\ now = 1
  /\ lk = NoLookup /\ pl = NoCall /\ hist = NoHist
  /\ faults = FALSE
  /\ \E held \in SUBSET StreamKeys :
       cache = [k \in StreamKeys |->
                  IF k \in held
                    THEN [exists |-> TRUE, finalLink |-> "f2", expiresAt |-> 2,
                          hitCount |-> 0, status |-> "valid"]
                    ELSE NoDoc]
  /\ task = [exists |-> TRUE, status |-> "pending",
             links |-> <<Link(0, ViewUrl(0), "pending", Null),
                         Link(1, ViewUrl(1), "pending", Null)>>]
  /\ NoRuns

outsideStream ==
  <<now, lk, pl, hist, faults, runVars, queueVars, ui, post, net, clk, lks, sent>>

NextStream ==
  \/ StreamOpen /\ UNCHANGED outsideStream
  \/ (\E l \in LinkIds : StreamCacheCheck(l)) /\ UNCHANGED outsideStream
  \/ (\E l \in LinkIds : StreamHitSave(l)) /\ UNCHANGED outsideStream
  \/ (\E l \in LinkIds : StreamLog(l)) /\ UNCHANGED outsideStream
  \/ (\E l \in LinkIds : StreamSolved(l)) /\ UNCHANGED outsideStream
  \/ (\E l \in LinkIds : StreamTimeout(l)) /\ UNCHANGED outsideStream
  \/ (\E l \in LinkIds : StreamSolvingOver(l)) /\ UNCHANGED outsideStream
  \/ (\E l \in LinkIds : StreamSendStatus(l)) /\ UNCHANGED outsideStream
  \/ (\E l \in LinkIds : StreamSave(l)) /\ UNCHANGED outsideStream
  \/ (\E l \in LinkIds : StreamMark(l)) /\ UNCHANGED outsideStream
  \/ StreamClose /\ UNCHANGED outsideStream
  \/ DeleteTask /\ UNCHANGED outsideStream

SpecStream == InitStream /\ [][NextStream]_vars

\* The lines of link l on the channel, in order.
LinesOf(l) == SelectSeq(chan, LAMBDA e : e.id = l)

(***************************************************************************)
(* C28: while the stream is open the Task document exists (a DELETE during *)
(* the stream removes nothing), and the result of every status line the    *)
(* stream has sent and saved is the link's status in the document.         *)
(***************************************************************************)
C28_NoDeleteUnderStream ==
  /\ strm.pc = "open" => task.exists
  /\ \A l \in LinkIds :
       strm.call[l].pc \in {"mark", "returned"}
         => /\ task.exists
            /\ task.links[l + 1].status = strm.call[l].payload.status

(***************************************************************************)
(* C29: a link whose processLink call has returned has the 'finished'      *)
(* marker as the last line of its id, its 'done' or 'error' line is before *)
(* the marker, and no line of an id follows the marker of that id.         *)
(***************************************************************************)
C29_MarkerIsLast ==
  \A l \in LinkIds :
    LET ls == LinesOf(l) IN
      /\ strm.call[l].pc = "returned"
           => /\ Len(ls) >= 2
              /\ ls[Len(ls)].kind = "finished"
              /\ ls[Len(ls) - 1].kind \in {"done", "error"}
      /\ \A i \in 1..Len(ls) : ls[i].kind = "finished" => i = Len(ls)

(***************************************************************************)
(* cron/process-queue GET after a run that deferred links.  `task` is the  *)
(* Task that run created: its first timer link was processed or deferred,  *)
(* its second was deferred and saved 'pending'; the run requeued its item  *)
(* (Step 8) and ended.  The Task an invocation creates from then on is a   *)
(* new document (Step 5 add()), held in cron[c].links.                     *)
(***************************************************************************)
DeferredSave == Result("pending", Null)

\* The Task as the deferring run left it.
LeftDeferred(first) ==
  LET created == [exists |-> TRUE, status |-> "processing",
                  links |-> <<Link(0, "gadgetsweb.xyz/g", "pending", Null),
                              Link(1, "review-tech.io/r", "pending", Null)>>]
      one == saveResultToFirestore(created, 0, "gadgetsweb.xyz/g", first)
  IN saveResultToFirestore(one, 1, "review-tech.io/r", DeferredSave)

\* Step 2: recoverStuckTasks, part A over the queues and part B over
\* scraping_tasks.
CronRecoverStuck(c) ==
  /\ CronRecover(c)
  /\ task' = IF StuckTask("recover", task, age)
               THEN RecoveredTask(task, task.links) ELSE task

InitResume ==
  /\ now = 1
  /\ cache = [k \in CacheKeys |-> NoDoc]
  /\ lk = NoLookup /\ pl = NoCall /\ hist = NoHist
  /\ faults = FALSE
  /\ NoTaskRuns
  /\ \E first \in {Result("done", "f1"), Result("error", Null), DeferredSave} :
       task = LeftDeferred(first)
  /\ items = [i \in ItemIds |->
                IF i = "m1" THEN Item("pending", 0, "none")
                ELSE Item("completed", 0, "none")]
  /\ cron = [c \in CronIds |-> NoCron]
  /\ pilot = NoPilot
  /\ heartbeat = "idle"

outsideResume ==
  <<now, lk, pl, hist, faults, runVars, ui, post, net, chan, strm, clk, lks, sent>>

NextResume ==
  \/ (\E c \in CronIds : CronStart(c)) /\ UNCHANGED outsideQueue
  \/ (\E c \in CronIds : CronRecoverStuck(c)) /\ UNCHANGED outsideResume
  \/ (\E c \in CronIds : CronPick(c)) /\ UNCHANGED outsideQueue
  \/ (\E c \in CronIds : CronLock(c)) /\ UNCHANGED outsideQueue
  \/ (\E c \in CronIds : CronExtractFails(c)) /\ UNCHANGED outsideQueue
  \/ (\E c \in CronIds : CronCreateTask(c)) /\ UNCHANGED outsideQueue
  \/ (\E c \in CronIds, k \in 1..2 : CronSolveLink(c, k))
       /\ UNCHANGED outsideQueue
  \/ (\E c \in CronIds : CronDefer(c)) /\ UNCHANGED outsideQueue
  \/ (\E c \in CronIds : CronFinal(c)) /\ UNCHANGED outsideQueue
  \/ (\E c \in CronIds : CronWrapUp(c)) /\ UNCHANGED outsideQueue
  \/ (\E c \in CronIds : CronThrows(c)) /\ UNCHANGED outsideQueue
  \/ (\E c \in CronIds : CronKill(c)) /\ UNCHANGED outsideQueue
  \/ (\E i \in ItemIds : LockGoesStale(i)) /\ UNCHANGED outsideQueue
  \/ PassTenMinutes /\ UNCHANGED outsideTask

SpecResume == InitResume /\ [][NextResume]_vars

(***************************************************************************)
(* C30: a link the deferring run left 'pending' in its Task leaves         *)
(* 'pending' only by the save of a Link Processor call made in Step 7 of a *)
(* later invocation, with status 'done' or 'error'; the stuck recovery     *)
(* of Step 2 never fails it.                                               *)
(***************************************************************************)
C30_DeferredLinkResumed ==
  [][\A i \in DOMAIN task.links :
       (task.links[i].status = "pending" /\ task'.links[i].status # "pending")
         => /\ \E c \in CronIds : cron[c].pc = "solve"
            /\ ~ \E c \in CronIds : CronRecoverStuck(c)]_vars

(***************************************************************************)
(* POST /api/solve_task against the clock of its host: the sequential loop *)
(* over the timer links of the request, with the budget check before each  *)
(* link and processLink's timeout race and auto-retry.  clk.t counts the   *)
(* time since overallStart in ticks of 5 s; the steps between two awaits   *)
(* of a resolver take no time.  The host ends the request at maxDuration.  *)
(***************************************************************************)
LinkTimeoutTicks == 4   \* LINK_TIMEOUT_MS = 20_000
TimeBudgetTicks == 9    \* TIME_BUDGET_MS = 45_000
MaxDurationTicks == 12  \* maxDuration = 60
TimerLinkCount == 3

\* Date.now() - overallStart > TIME_BUDGET_MS
OverBudget(t) == t > TimeBudgetTicks

\* What follows an attempt that ended with this status.
AfterAttempt(c, status) ==
  IF ShouldRetry([status |-> status], c.attempt)
    THEN [c EXCEPT !.attempt = 2, !.started = c.t]
    ELSE [c EXCEPT !.pc = "loop", !.i = c.i + 1, !.attempt = 0]

\* const overallStart = Date.now()
RunStarts ==
  /\ clk.pc = "idle"
  /\ clk' = [NoClock EXCEPT !.pc = "loop", !.i = 1]

\* The head of the loop: the budget check, then processLink(l, l.id, ...);
\* over budget, the rest is saved 'pending' and the loop is left.
LoopHead ==
  /\ clk.pc = "loop"
  /\ clk' = IF clk.i > TimerLinkCount \/ OverBudget(clk.t)
              THEN [clk EXCEPT !.pc = "returned"]
              ELSE [clk EXCEPT !.pc = "solving", !.attempt = 1,
                               !.started = clk.t]

\* solveWork() settles before the timeout.
AttemptSettles ==
  /\ clk.pc = "solving" /\ clk.t - clk.started < LinkTimeoutTicks
  /\ \E status \in {"done", "error"} : clk' = AfterAttempt(clk, status)

\* The timeout of the race rejects.
AttemptTimesOut ==
  /\ clk.pc = "solving" /\ clk.t - clk.started = LinkTimeoutTicks
  /\ clk' = AfterAttempt(clk, "error")

\* 5 s go by in the await of the race; the timeout of the attempt is not
\* passed over.
FiveSeconds ==
  /\ clk.pc = "solving"
  /\ clk.t < MaxDurationTicks
  /\ clk.t - clk.started < LinkTimeoutTicks
  /\ clk' = [clk EXCEPT !.t = @ + 1]

\* The host's execution ceiling.
HostKills ==
  /\ clk.pc = "solving" /\ clk.t = MaxDurationTicks
  /\ clk' = [clk EXCEPT !.pc = "killed"]

InitBudget ==
  /\ now = 1
  /\ cache = [k \in CacheKeys |-> NoDoc]
  /\ lk = NoLookup /\ pl = NoCall /\ hist = NoHist
  /\ faults = FALSE
  /\ task = NoTask
  /\ NoRuns

outsideBudget ==
  <<now, cache, lk, linkVars, runVars, queueVars, ui, post, net, chan, strm,
    lks, sent>>

NextBudget ==
  \/ RunStarts /\ UNCHANGED outsideBudget
  \/ LoopHead /\ UNCHANGED outsideBudget
  \/ AttemptSettles /\ UNCHANGED outsideBudget
  \/ AttemptTimesOut /\ UNCHANGED outsideBudget
  \/ FiveSeconds /\ UNCHANGED outsideBudget
  \/ HostKills /\ UNCHANGED outsideBudget

SpecBudget == InitBudget /\ [][NextBudget]_vars

(***************************************************************************)
(* C31: at 60 s elapsed no link resolution of the run is in flight, and    *)
(* the host never has a run to end: every run has returned by then.        *)
(***************************************************************************)
C31_NothingInFlightAtCeiling ==
  /\ clk.t = MaxDurationTicks => clk.pc # "solving"
  /\ clk.pc # "killed"

(***************************************************************************)
(* C32: when an invocation that has locked an item lets go of it without   *)
(* being ended by the host (Step 5's catch, Step 8, the top-level catch),  *)
(* the item is 'pending', 'completed' or 'failed' and its lock is cleared. *)
(***************************************************************************)
C32_ReturnReleasesItem ==
  [][\A c \in CronIds :
       (/\ Working(c)
        /\ cron'[c].item # cron[c].item
        /\ ~CronKill(c))
         => LET d == items'[cron[c].item] IN
              /\ d.status \in {"pending", "completed", "failed"}
              /\ d.lock = "none"]_vars

(***************************************************************************)
(* cron/process-queue GET under its trigger: one invocation at a time on a *)
(* queue with one pending item.  The trigger keeps firing and a started    *)
(* invocation keeps taking its steps; whether the extraction fails, the    *)
(* budget runs out, a call throws or the host ends the run is not up to    *)
(* the scheduler.                                                          *)
(***************************************************************************)
Trigger == "c1"

NextRequeue ==
  \/ CronStart(Trigger) /\ UNCHANGED outsideQueue
  \/ CronRecover(Trigger) /\ UNCHANGED outsideQueue
  \/ CronPick(Trigger) /\ UNCHANGED outsideQueue
  \/ CronLock(Trigger) /\ UNCHANGED outsideQueue
  \/ CronExtractFails(Trigger) /\ UNCHANGED outsideQueue
  \/ CronCreateTask(Trigger) /\ UNCHANGED outsideQueue
  \/ (\E k \in 1..2 : CronSolveLink(Trigger, k)) /\ UNCHANGED outsideQueue
  \/ CronDefer(Trigger) /\ UNCHANGED outsideQueue
  \/ CronFinal(Trigger) /\ UNCHANGED outsideQueue
  \/ CronWrapUp(Trigger) /\ UNCHANGED outsideQueue
  \/ CronThrows(Trigger) /\ UNCHANGED outsideQueue
  \/ CronKill(Trigger) /\ UNCHANGED outsideQueue
  \/ (\E i \in ItemIds : LockGoesStale(i)) /\ UNCHANGED outsideQueue

\* The invocation's own steps, whichever branch they take.
InvocationStep ==
  /\ \/ CronRecover(Trigger) \/ CronPick(Trigger) \/ CronLock(Trigger)
     \/ CronExtractFails(Trigger) \/ CronCreateTask(Trigger)
     \/ (\E k \in 1..2 : CronSolveLink(Trigger, k)) \/ CronDefer(Trigger)
     \/ CronFinal(Trigger) \/ CronWrapUp(Trigger)
  /\ UNCHANGED outsideQueue

\* The trigger fires.
TriggerFires == CronStart(Trigger) /\ UNCHANGED outsideQueue

\* A lock left behind grows older than the threshold.
LockAges == (\E i \in ItemIds : LockGoesStale(i)) /\ UNCHANGED outsideQueue

SpecRequeue ==
  /\ InitQueue
  /\ [][NextRequeue]_vars
  /\ WF_vars(TriggerFires)
  /\ WF_vars(InvocationStep)
  /\ WF_vars(LockAges)

\* The invocation is cut short: a call throws, or the host ends the run.
CutShort == CronThrows(Trigger) \/ CronKill(Trigger)

(***************************************************************************)
(* C33: under the repeated trigger, and with only finitely many runs cut   *)
(* short, every item is eventually 'completed' or 'failed' for good: no    *)
(* item goes on being locked and put back 'pending'.                       *)
(***************************************************************************)
C33_EveryItemSettles ==
  <>[][~CutShort]_vars
    => <>[](\A i \in ItemIds : items[i].status \in {"completed", "failed"})

(***************************************************************************)
(* cron/process-queue GET and reset-stuck on one item whose extraction     *)
(* fails every time; hist.fails counts the extraction attempts made on it. *)
(***************************************************************************)
\* Step 5 of an invocation, the extraction failing: one more attempt.
ExtractionAttempt(c) ==
  /\ CronExtractFails(c)
  /\ hist' = [hist EXCEPT !.fails = @ + 1]

outsideAttempts ==
  <<now, lk, task, pl, faults, runVars, ui, post, net, chan, strm, clk, lks, sent>>

NextAttempts ==
  \/ (\E c \in CronIds : CronStart(c)) /\ UNCHANGED outsideQueue
  \/ (\E c \in CronIds : CronRecover(c)) /\ UNCHANGED outsideQueue
  \/ (\E c \in CronIds : CronPick(c)) /\ UNCHANGED outsideQueue
  \/ (\E c \in CronIds : CronLock(c)) /\ UNCHANGED outsideQueue
  \/ (\E c \in CronIds : ExtractionAttempt(c)) /\ UNCHANGED outsideAttempts
  \/ (\E c \in CronIds : CronThrows(c)) /\ UNCHANGED outsideQueue
  \/ (\E c \in CronIds : CronKill(c)) /\ UNCHANGED outsideQueue
  \/ (\E i \in ItemIds : LockGoesStale(i)) /\ UNCHANGED outsideQueue
  \/ AdminReset /\ UNCHANGED outsideQueue

SpecAttempts == InitQueue /\ [][NextAttempts]_vars

(***************************************************************************)
(* C34: an item in 'pending' or 'processing' has retryCount at most        *)
(* MAX_CRON_RETRIES, no item has retryCount above MAX_CRON_RETRIES + 1,    *)
(* and an item whose extraction always fails is attempted at most          *)
(* MAX_CRON_RETRIES + 1 times.                                             *)
(***************************************************************************)
C34_RetryCountBounded ==
  /\ \A i \in DOMAIN items :
       /\ items[i].status \in {"pending", "processing"}
            => items[i].retryCount <= MAX_CRON_RETRIES
       /\ items[i].retryCount <= MAX_CRON_RETRIES + 1
  /\ hist.fails <= MAX_CRON_RETRIES + 1

(***************************************************************************)
(* The progress of one batch processLink call: what is left of it, at      *)
(* most, counted in awaits.  The second attempt ranks below the first; in  *)
(* an attempt the cache lookup comes before the chain, and in the chain    *)
(* the bypass hops (three at most) before solveHBLinks, solveHubDrive and  *)
(* solveHubCloudNative, each in its one place; then the save and the cache *)
(* write.                                                                  *)
(***************************************************************************)
CallRank(c) ==
  CASE c.call \in {"solveGadgetsWebNative", "timerBypass"} -> 9 - c.loopCount
    [] c.call = "solveHBLinks" -> 6
    [] c.call = "solveHubDrive" -> 5
    [] c.call = "solveHubCloudNative" -> 4
    [] OTHER -> 3

Rank(p, l) ==
  CASE p.pc \in {"returned", "threw", "idle"} -> 0
    [] p.pc = "cachewrite" -> 1
    [] p.pc = "save" -> 2
    [] OTHER ->
         (IF p.attempt = 1 THEN 20 ELSE 0)
         + (CASE p.pc = "start" -> 13
              [] p.pc = "lookup" -> IF l.pc = "returned" THEN 11 ELSE 12
              [] p.pc = "solve" -> 10
              [] OTHER -> CallRank(p.chain))

\* The link of the call as the Task holds it.
Persisted(p) ==
  /\ task.exists
  /\ task.links[p.lid + 1].status = p.ret.status
  /\ p.ret.status \in {"done", "error"}

HandLinks ==
  /\ sent = NoLinksSent
  /\ task.exists /\ task.links # <<>>
  /\ sent' = [i \in DOMAIN task.links |->
                [id |-> task.links[i].id, link |-> task.links[i].link,
                 saved |-> FALSE]]
  /\ UNCHANGED <<task, post>>

\* The run's save for the k-th link it was handed: the transaction reads
\* the Task's array as it is now and maps over it with that id and url.
SaveSent(k) ==
  /\ k \in DOMAIN sent /\ ~sent[k].saved
  /\ \E r \in {Result("done", "f1"), Result("error", Null)} :
       task' = saveToFirestore(task, sent[k].id, sent[k].link, r)
  /\ sent' = [sent EXCEPT ![k].saved = TRUE]
  /\ UNCHANGED post

outsideSave ==
  <<now, cache, lk, pl, hist, faults, runVars, queueVars, ui, net, chan, strm,
    clk, lks>>

NextSave ==
  \/ (\E p \in PostIds : StartProcess(p)) /\ UNCHANGED <<outsideSave, sent>>
  \/ (\E p \in PostIds : PostRead(p)) /\ UNCHANGED <<outsideSave, sent>>
  \/ (\E p \in PostIds : PostWrite(p)) /\ UNCHANGED <<outsideSave, sent>>
  \/ HandLinks /\ UNCHANGED outsideSave
  \/ (\E k \in DOMAIN sent : SaveSent(k)) /\ UNCHANGED outsideSave

SpecSave == InitIntake /\ [][NextSave]_vars

(***************************************************************************)
(* C36: the save a run makes for a link it was handed leaves every entry   *)
(* of the Task's array that holds another url as it was: status,           *)
(* finalLink and the rest of the entry.                                    *)
(***************************************************************************)
C36_SaveTouchesOneLink ==
  [][\A k \in DOMAIN sent :
       (k \in DOMAIN sent' /\ ~sent[k].saved /\ sent'[k].saved)
         => \A i \in DOMAIN task.links :
              task.links[i].link # sent[k].link
                => /\ i \in DOMAIN task'.links
                   /\ task'.links[i] = task.links[i]]_vars


(***************************************************************************)
(* SpecHits: several getCachedLink calls on one url at a time, between     *)
(* stores of the url's entry.  Every await of getCachedLink is a point     *)
(* where another call, or a store, runs.                                   *)
(***************************************************************************)
HitUrl == "hubcloud.foo/a"
Lookers == {"q1", "q2", "q3"}

\* Whether the entry is one a lookup returns: present, 'valid', not expired.
LiveEntry(data) == data.exists /\ ~IsExpired(data, now) /\ ~NotValid(data)

\* const doc = await ...doc(hash).get(), and the branch taken on it: a
\* miss returns null at once, a hit goes on to the counter's update.
LookupReads(q) ==
  /\ q \notin DOMAIN lks.call
  /\ LET data == cache[hashUrl(HitUrl)] IN
       lks' = IF LiveEntry(data)
                THEN [lks EXCEPT !.call = @ @@ (q :> data)]
                ELSE lks
  /\ UNCHANGED cache

\* await doc.ref.update({ hitCount: (data.hitCount || 0) + 1 }); return
\* data: the count written is the one read by this call, plus one.
LookupHits(q) ==
  /\ q \in DOMAIN lks.call
  /\ lks.hits < MaxHits /\ lks.call[q].hitCount < MaxHits
  /\ cache' = [cache EXCEPT ![hashUrl(HitUrl)].hitCount =
                              lks.call[q].hitCount + 1]
  /\ lks' = [call |-> [p \in DOMAIN lks.call \ {q} |-> lks.call[p]],
             hits |-> lks.hits + 1]

\* setCachedLink of the url: set() with hitCount: 0; the lookups that read
\* the entry before it are still on their way to their update.
StoreLink(finalLink) ==
  /\ cache' = [cache EXCEPT ![hashUrl(HitUrl)] =
                 [exists |-> TRUE, finalLink |-> finalLink,
                  expiresAt |-> now + CacheExpiryTicks,
                  hitCount |-> 0, status |-> "valid"]]
  /\ lks' = [lks EXCEPT !.hits = 0]

InitHits ==
  /\ now = 1
  /\ cache = [k \in CacheKeys |-> NoDoc]
  /\ lk = NoLookup
  /\ task = NoTask /\ pl = NoCall /\ hist = NoHist
  /\ faults = FALSE
  /\ NoRuns

outsideHits ==
  <<now, lk, linkVars, runVars, queueVars, ui, post, net, chan, strm, clk,
    sent>>

NextHits ==
  \/ (\E q \in Lookers : LookupReads(q)) /\ UNCHANGED outsideHits
  \/ (\E q \in Lookers : LookupHits(q)) /\ UNCHANGED outsideHits
  \/ (\E f \in FinalLinks : StoreLink(f)) /\ UNCHANGED outsideHits

SpecHits == InitHits /\ [][NextHits]_vars

(***************************************************************************)
(* C37: while the url's entry is live, its hitCount is the number of       *)
(* lookups that have returned it since it was last stored.                 *)
(***************************************************************************)
C37_HitCountCountsHits ==
  LiveEntry(cache[hashUrl(HitUrl)])
    => cache[hashUrl(HitUrl)].hitCount = lks.hits


(***************************************************************************)
(* SpecBoth: processLink of solve_task and processLink of stream_solve on  *)
(* the same link, with the same link_cache entry and the same sequence of  *)
(* answers from the resolvers.  Each processor takes the answers in order, *)
(* one per call it awaits.                                                 *)
(***************************************************************************)
MaxScript == 2         \* answers in a script

\* What an awaited resolver call can come back with: a thrown error or an
\* error status, a bypass hop that fails inside its try, the race's timer,
\* a final link, a next url.
Replies ==
  {[r |-> k, v |-> Null] : k \in {"failed", "broke", "timeout"}}
    \cup {[r |-> "solved", v |-> f] : f \in FinalLinks}
    \cup {[r |-> "hopped", v |-> u] : u \in HopAnswers}

\* Where the chain goes when the awaited call c comes back with reply.
Reply(variant, c, reply) ==
  CASE reply.r \in {"failed", "timeout"} ->
         Hop(c.cur, Settled(Result("error", Null)))
    [] reply.r = "solved" -> Hop(c.cur, Settled(Result("done", reply.v)))
    [] reply.r = "broke" ->
         Hop(c.cur, Advance(variant, "4c", c.cur, c.loopCount))
    [] OTHER ->
         CASE c.call \in {"solveGadgetsWebNative", "timerBypass"} ->
                Hop(reply.v, Advance(variant, "4b", reply.v, c.loopCount + 1))
           [] c.call = "solveHBLinks" ->
                Hop(reply.v, Advance(variant, "4d", reply.v, c.loopCount))
           [] c.call = "solveHubDrive" ->
                Hop(reply.v, Advance(variant, "4e", reply.v, c.loopCount))
           [] OTHER -> Hop(reply.v, Await("", reply.v, c.loopCount))

\* The reply is one the awaited call can give.
CanReply(variant, c, reply) ==
  \/ reply.r = "timeout"
  \/ Reply(variant, c, reply) \in CallOutcomes(variant, c)

Unended == [ended |-> FALSE, ret |-> Result("", Null)]

\* solveWork / solving against the script, then the processor's handling
\* of the race's result: solve_task calls itself once more on a failed
\* first attempt, stream_solve takes the result as it is.
RECURSIVE RunChain(_, _, _, _, _)
RunChain(variant, url, attempt, c, script) ==
  IF c.kind = "result"
    THEN IF variant = "batch" /\ ShouldRetry(c.result, attempt)
           THEN RunChain(variant, url, 2, Advance(variant, "4a", url, 0),
                         script)
           ELSE [ended |-> TRUE, ret |-> c.result]
  ELSE IF script = <<>> \/ ~CanReply(variant, c, Head(script))
    THEN Unended
  ELSE RunChain(variant, url, attempt, Reply(variant, c, Head(script)).next,
                Tail(script))

\* processLink: the cache check, then the chain.
ProcessBoth(variant, url, cached, script) ==
  IF CacheUsable(cached)
    THEN [ended |-> TRUE, ret |-> Result("done", cached.finalLink)]
    ELSE RunChain(variant, url, 1, Advance(variant, "4a", url, 0), script)

\* The entry of link 0 as the processor's save leaves it.
PersistedBy(variant, url, run) ==
  IF variant = "batch"
    THEN saveResultToFirestore(task, 0, url, run.ret).links[1]
    ELSE saveToFirestore(task, 0, url, run.ret).links[1]

\* One more answer is fixed for the calls to come.
ScriptGrows ==
  /\ pl.pc = "script" /\ Len(pl.script) < MaxScript
  /\ \E reply \in Replies : pl' = [pl EXCEPT !.script = Append(@, reply)]

\* Both processors run on the link, each from the same Task entry.
BothRun ==
  /\ pl.pc = "script"
  /\ LET batch == ProcessBoth("batch", pl.url, pl.cached, pl.script)
         stream == ProcessBoth("stream", pl.url, pl.cached, pl.script)
     IN /\ batch.ended /\ stream.ended
        /\ pl' = [pl EXCEPT !.pc = "ran",
                            !.batch = PersistedBy("batch", pl.url, batch),
                            !.stream = PersistedBy("stream", pl.url, stream)]

InitBoth ==
  /\ now = 1
  /\ cache = [k \in LinkKeys |-> NoDoc]
  /\ lk = NoLookup /\ hist = NoHist
  /\ faults = FALSE
  /\ \E u \in LinkUrls, f \in {"", "f2"} :
       /\ task = [exists |-> TRUE, status |-> "processing",
                  links |-> <<Link(0, u, "pending", Null)>>]
       /\ pl = [pc |-> "script", url |-> u, script |-> <<>>,
                cached |-> [NoDoc EXCEPT !.exists = f # "", !.finalLink = f],
                batch |-> Link(0, u, "pending", Null),
                stream |-> Link(0, u, "pending", Null)]
  /\ NoRuns

outsideBoth ==
  <<now, cache, lk, task, hist, faults, runVars, queueVars, ui, post, net,
    chan, strm, clk, lks, sent>>

NextBoth ==
  \/ ScriptGrows /\ UNCHANGED outsideBoth
  \/ BothRun /\ UNCHANGED outsideBoth

SpecBoth == InitBoth /\ [][NextBoth]_vars

(***************************************************************************)
(* C38: when both processors have run on the same link with the same cache *)
(* entry and the same answers, the entries they persist for the link have  *)
(* the same status and the same finalLink.                                 *)
(***************************************************************************)
C38_ProcessorsAgree ==
  pl.pc = "ran"
    => /\ pl.batch.status = pl.stream.status
       /\ pl.batch.finalLink = pl.stream.finalLink


(***************************************************************************)
(* C39: the update recoverStuckTasks makes to a Task finds it in           *)
(* 'processing' with its processing timestamp past the threshold and with  *)
(* no run at work on it; a Task in another status, or one a live run is    *)
(* working on, is not written by the scheduled recovery.                   *)
(***************************************************************************)
C39_RecoveryOnlyOnStuckWork ==
  [][(rec.pc = "read" /\ rec.kind = "recover" /\ rec'.pc # "read")
       => /\ task.status = "processing" /\ age = "stale"
          /\ \A r \in Runs : ~Alive(r)]_vars


(***************************************************************************)
(* C40: the write of a duplicate-submission merge changes the status of no *)
(* link but those the Task holds as 'error' or 'failed' at the write:      *)
(* every other link, a 'done' one in particular, has afterwards the status *)
(* and finalLink it had in the Task just before the write.                 *)
(***************************************************************************)
C40_MergeResetsOnlyFailed ==
  [][\A p \in PostIds :
       (post.req[p].pc = "read" /\ post'.req[p].pc = "answered"
          /\ post'.req[p].answer = "merged")
         => \A i \in DOMAIN task.links :
              task.links[i].status \notin {"error", "failed"}
                => /\ i \in DOMAIN task'.links
                   /\ task'.links[i].status = task.links[i].status
                   /\ task'.links[i].finalLink = task.links[i].finalLink]_vars

====
